---- MODULE Spec2Model ----
(***************************************************************************)
(* Academic-management backend: the services of                            *)
(* src/FastAPI/app/services/academic.py and services/user.py and the       *)
(* enrollment and grade routes of routes/academic.py, over the relational  *)
(* store declared in src/FastAPI/app/models.                               *)
(*                                                                         *)
(* The store is six tables.  A table is a function from the primary keys   *)
(* of its rows to the rows; keys come from AUTO_INCREMENT counters and are *)
(* never handed out twice.  A nullable foreign-key column holds NULL when  *)
(* it references nothing.                                                  *)
(***************************************************************************)
EXTENDS Integers, Sequences, FiniteSets, TLC

VARIABLES users, semesters, subjects, schedules, enrollments, grades,
          nextId, pending, last

vars == <<users, semesters, subjects, schedules, enrollments, grades,
          nextId, pending, last>>

(***************************************************************************)
(* Bounds of the model: how many rows each AUTO_INCREMENT counter may hand *)
(* out, and how many requests may be in flight at once.                    *)
(***************************************************************************)
MaxSemesters == 2
MaxSubjects == 2
MaxSchedules == 2
MaxEnrollments == 2
MaxGrades == 2
MaxPending == 2

\* Spec and SpecDelete follow the store up to its first grade.
MaxGradesFollowed == 1

\* The value of a nullable foreign-key column that references no row.
NULL == 0

\* Grade.score >= 3.0, with scores counted in tenths.
PassingScore == 30

(***************************************************************************)
(* Column values.                                                          *)
(***************************************************************************)
ADMIN == "admin"
STUDENT == "student"
TEACHER == "teacher"

\* The users table once the administrator has registered the users: two
\* teachers, two students, one administrator.
SeedUsers ==
    <<[role |-> TEACHER], [role |-> TEACHER], [role |-> STUDENT],
      [role |-> STUDENT], [role |-> ADMIN]>>

\* start_time and end_time are String(5) columns.  validate_time_format
\* accepts what strptime("%H:%M") parses, so "9:00" is stored as given.
TimeStrings == {"9:00", "10:00", "11:00", "12:00"}

\* The characters of a time string, as code points.
Chars(s) ==
    CASE s = "9:00"  -> <<57, 58, 48, 48>>
      [] s = "10:00" -> <<49, 48, 58, 48, 48>>
      [] s = "11:00" -> <<49, 49, 58, 48, 48>>
      [] s = "12:00" -> <<49, 50, 58, 48, 48>>

RECURSIVE LexLE(_, _)
\* a <= b for two character sequences, as the store compares strings.
LexLE(a, b) ==
    IF a = <<>> THEN TRUE
    ELSE IF b = <<>> THEN FALSE
    ELSE IF Head(a) < Head(b) THEN TRUE
    ELSE IF Head(a) > Head(b) THEN FALSE
    ELSE LexLE(Tail(a), Tail(b))

\* Schedule.start_time <= schedule.end_time: a comparison of two strings.
StrLE(s, t) == LexLE(Chars(s), Chars(t))

\* The wall-clock time datetime.strptime(v, "%H:%M") reads in a time string,
\* in minutes after midnight.
Minutes(s) ==
    CASE s = "9:00"  -> 9 * 60
      [] s = "10:00" -> 10 * 60
      [] s = "11:00" -> 11 * 60
      [] s = "12:00" -> 12 * 60

(***************************************************************************)
(* Tables as functions.                                                    *)
(***************************************************************************)
Put(table, id, row) ==
    [k \in DOMAIN table \cup {id} |-> IF k = id THEN row ELSE table[k]]

Remove(table, id) == [k \in DOMAIN table \ {id} |-> table[k]]

EmptyTable == [k \in {} |-> NULL]

\* db.query(T).filter(...).count(), over the keys the filter keeps
Count(keys) == Cardinality(keys)

\* What the caller of the last operation saw, where the tables do not show
\* it: the operation, the detail of the HTTPException it raised (OK when it
\* returned), the key of the row it deleted, missed or named, and the count
\* a deletion guard reported.  stored tells whether the call changed a row
\* of the store, and body is what a read returned: the keys of the rows in
\* the response.
OK == "ok"
IntegrityError == "IntegrityError"
UnmappedInstanceError == "UnmappedInstanceError"

Outcome(op, detail, id, count) ==
    [op |-> op, detail |-> detail, id |-> id, count |-> count,
     stored |-> detail = OK, body |-> {}]

\* A call that returned and left every row as it was.
Unchanged(outcome) == [outcome EXCEPT !.stored = FALSE]

\* A call that returned the row it added or changed: the table shows it.
RowStored == [op |-> "none", detail |-> OK, id |-> NULL, count |-> 0,
              stored |-> TRUE, body |-> {}]

\* A read that returned the rows whose keys are body.
Returned(op, id, body) ==
    [Unchanged(Outcome(op, OK, id, 0)) EXCEPT !.body = body]

\* A request slot no request occupies.
NoPending == [op |-> "none", row |-> [id |-> NULL]]

Init ==
    /\ users = SeedUsers
    /\ semesters = EmptyTable
    /\ subjects = EmptyTable
    /\ schedules = EmptyTable
    /\ enrollments = EmptyTable
    /\ grades = EmptyTable
    /\ nextId = [semester |-> 1, subject |-> 1, schedule |-> 1,
                 enrollment |-> 1, grade |-> 1]
    /\ pending = [slot \in 1..MaxPending |-> NoPending]
    /\ last = RowStored

(***************************************************************************)
(* Semester services.                                                      *)
(***************************************************************************)
\* start_date is a DateTime column: a day number.
create_semester(start_date, is_active) ==
    /\ nextId.semester <= MaxSemesters
    /\ semesters' = Put(semesters, nextId.semester,
                        [start_date |-> start_date, is_active |-> is_active])
    /\ nextId' = [nextId EXCEPT !.semester = @ + 1]
    /\ last' = RowStored
    /\ UNCHANGED <<users, subjects, schedules, enrollments, grades, pending>>

get_semester(semester_id) == semester_id \in DOMAIN semesters

update_semester(semester_id, is_active) ==
    /\ IF ~get_semester(semester_id)
       THEN /\ last' = Outcome("update_semester", "Semester not found", semester_id, 0)
            /\ UNCHANGED semesters
       ELSE /\ semesters' = [semesters EXCEPT ![semester_id].is_active = is_active]
            /\ last' = IF semesters' = semesters
                       THEN Unchanged(Outcome("update_semester", OK, semester_id, 0))
                       ELSE RowStored
    /\ UNCHANGED <<users, subjects, schedules, enrollments, grades, nextId, pending>>

\* The detail delete_semester reports and the count in it.
delete_semester_result(semester_id) ==
    LET enrollments_count ==
            Count({e \in DOMAIN enrollments : enrollments[e].semester_id = semester_id})
    IN  IF ~get_semester(semester_id)
        THEN [detail |-> "Semester not found", count |-> 0]
        ELSE IF enrollments_count > 0
        THEN [detail |-> "Cannot delete semester with enrollments",
              count |-> enrollments_count]
        ELSE [detail |-> OK, count |-> 0]

\* db.delete of a row whose one-to-many relationship has no delete cascade:
\* the session sets the foreign key of the rows that reference it to NULL.
NullifyFK(table, column, id) ==
    [k \in DOMAIN table |->
        IF table[k][column] = id
        THEN [table[k] EXCEPT ![column] = NULL]
        ELSE table[k]]

delete_semester(semester_id) ==
    LET r == delete_semester_result(semester_id)
    IN  /\ last' = Outcome("delete_semester", r.detail, semester_id, r.count)
        /\ IF r.detail = OK
           THEN /\ semesters' = Remove(semesters, semester_id)
                /\ schedules' = NullifyFK(schedules, "semester_id", semester_id)
                /\ enrollments' = NullifyFK(enrollments, "semester_id", semester_id)
           ELSE UNCHANGED <<semesters, schedules, enrollments>>
        /\ UNCHANGED <<users, subjects, grades, nextId, pending>>

(***************************************************************************)
(* Subject services.  prerequisites is the set of prerequisite_id of the   *)
(* rows of subject_prerequisites whose subject_id is the subject.          *)
(***************************************************************************)
\* prerequisite_ids is a List[int]: a sequence, in which an id may be given
\* more than once.
\* for prereq_id in ids: prereq = query(...).first(); if prereq: append
ExistingPrereqs(prerequisite_ids, table) ==
    SelectSeq(prerequisite_ids, LAMBDA prereq_id : prereq_id \in DOMAIN table)

Range(seq) == {seq[i] : i \in DOMAIN seq}

\* The commit of the rows of subject_prerequisites, one row for each item
\* appended to the collection: (subject_id, prerequisite_id) is the primary
\* key of the table, so two items for the same prerequisite are refused.
insert_prerequisites_detail(appended) ==
    IF \E i, j \in DOMAIN appended : i < j /\ appended[i] = appended[j]
    THEN IntegrityError
    ELSE OK

\* Two commits: the first stores the subject, the second the prerequisites
\* appended to it.  When the second raises, the first stays.
create_subject(credits, max_students, prerequisite_ids) ==
    LET id == nextId.subject
        row == [credits |-> credits, max_students |-> max_students,
                prerequisites |-> {}]
        added == Put(subjects, id, row)
        appended == ExistingPrereqs(prerequisite_ids, added)
        detail == insert_prerequisites_detail(appended)
    IN  /\ nextId.subject <= MaxSubjects
        /\ subjects' = IF detail = OK
                       THEN [added EXCEPT ![id].prerequisites = Range(appended)]
                       ELSE added
        /\ nextId' = [nextId EXCEPT !.subject = @ + 1]
        /\ last' = IF detail = OK
                   THEN RowStored
                   ELSE [Outcome("create_subject", detail, id, 0)
                            EXCEPT !.stored = TRUE]
        /\ UNCHANGED <<users, semesters, schedules, enrollments, grades, pending>>

get_subject(subject_id) == subject_id \in DOMAIN subjects

\* subject is the dict of the fields the request sets (exclude_unset): a
\* function whose domain is a subset of {"max_students", "prerequisite_ids"}.
\* One commit: when it raises, the row keeps the values it had.
update_subject(subject_id, subject) ==
    /\ IF ~get_subject(subject_id)
       THEN /\ last' = Outcome("update_subject", "Subject not found", subject_id, 0)
            /\ UNCHANGED subjects
       ELSE LET old == subjects[subject_id]
                appended == IF "prerequisite_ids" \in DOMAIN subject
                            THEN ExistingPrereqs(subject["prerequisite_ids"], subjects)
                            ELSE <<>>
                \* an item the collection held before clear() is no new row
                inserted == SelectSeq(appended,
                                LAMBDA prereq_id : prereq_id \notin old.prerequisites)
                detail == insert_prerequisites_detail(inserted)
                row == [credits |-> old.credits,
                        max_students |->
                            IF "max_students" \in DOMAIN subject
                            THEN subject["max_students"] ELSE old.max_students,
                        prerequisites |->
                            IF "prerequisite_ids" \in DOMAIN subject
                            THEN Range(appended)
                            ELSE old.prerequisites]
            IN  IF detail # OK
                THEN /\ last' = Outcome("update_subject", detail, subject_id, 0)
                     /\ UNCHANGED subjects
                ELSE /\ subjects' = [subjects EXCEPT ![subject_id] = row]
                     /\ last' = IF row = old
                                THEN Unchanged(Outcome("update_subject", OK, subject_id, 0))
                                ELSE RowStored
    /\ UNCHANGED <<users, semesters, schedules, enrollments, grades, nextId, pending>>

delete_subject_result(subject_id) ==
    LET enrollments_count ==
            Count({e \in DOMAIN enrollments : enrollments[e].subject_id = subject_id})
    IN  IF ~get_subject(subject_id)
        THEN [detail |-> "Subject not found", count |-> 0]
        ELSE IF enrollments_count > 0
        THEN [detail |-> "Cannot delete subject with enrollments",
              count |-> enrollments_count]
        ELSE [detail |-> OK, count |-> 0]

delete_subject(subject_id) ==
    LET r == delete_subject_result(subject_id)
        rest == Remove(subjects, subject_id)
    IN  /\ last' = Outcome("delete_subject", r.detail, subject_id, r.count)
        /\ IF r.detail = OK
           THEN \* the rows of subject_prerequisites on either side go with it
                /\ subjects' = [k \in DOMAIN rest |->
                                 [rest[k] EXCEPT !.prerequisites = @ \ {subject_id}]]
                /\ schedules' = NullifyFK(schedules, "subject_id", subject_id)
                /\ enrollments' = NullifyFK(enrollments, "subject_id", subject_id)
           ELSE UNCHANGED <<subjects, schedules, enrollments>>
        /\ UNCHANGED <<users, semesters, grades, nextId, pending>>

(***************************************************************************)
(* User services (services/user.py).  get_user returns                     *)
(* UserSchema.model_validate(user): a copy that is no mapped instance, so  *)
(* db.refresh and db.delete of it raise and the users table keeps its rows.*)
(***************************************************************************)
get_user(user_id) == user_id \in DOMAIN users

update_user(user_id, role) ==
    /\ last' = Outcome("update_user",
                       IF get_user(user_id) THEN UnmappedInstanceError
                       ELSE "User not found", user_id, 0)
    /\ UNCHANGED <<users, semesters, subjects, schedules, enrollments, grades,
                   nextId, pending>>

delete_user(user_id) ==
    /\ last' = Outcome("delete_user",
                       IF get_user(user_id) THEN UnmappedInstanceError
                       ELSE "User not found", user_id, 0)
    /\ UNCHANGED <<users, semesters, subjects, schedules, enrollments, grades,
                   nextId, pending>>

(***************************************************************************)
(* Schedule services.                                                      *)
(***************************************************************************)
\* Mutant: the half-open test, which lets classes meet end to start.
Overlaps_HalfOpen(existing, schedule) ==
    /\ StrLE(existing.start_time, schedule.end_time)
    /\ existing.start_time # schedule.end_time
    /\ StrLE(schedule.start_time, existing.end_time)
    /\ schedule.start_time # existing.end_time

\* Schedule.start_time <= schedule.end_time, Schedule.end_time >= schedule.start_time
Overlaps(existing, schedule) ==
    /\ StrLE(existing.start_time, schedule.end_time)
    /\ StrLE(schedule.start_time, existing.end_time)

classroom_conflict(schedule) ==
    \E k \in DOMAIN schedules :
        /\ schedules[k].classroom = schedule.classroom
        /\ schedules[k].day_of_week = schedule.day_of_week
        /\ schedules[k].semester_id = schedule.semester_id
        /\ Overlaps(schedules[k], schedule)

teacher_conflict(schedule) ==
    \E k \in DOMAIN schedules :
        /\ schedules[k].teacher_id = schedule.teacher_id
        /\ schedules[k].day_of_week = schedule.day_of_week
        /\ schedules[k].semester_id = schedule.semester_id
        /\ Overlaps(schedules[k], schedule)

\* UniqueConstraint('classroom', 'day_of_week', 'start_time', 'semester_id')
uq_classroom_time(table, row) ==
    \A k \in DOMAIN table :
        ~ /\ table[k].classroom = row.classroom
          /\ table[k].day_of_week = row.day_of_week
          /\ table[k].start_time = row.start_time
          /\ table[k].semester_id = row.semester_id
          /\ row.semester_id # NULL

\* The checks of create_schedule, in the order of the code.
create_schedule_detail(schedule) ==
    IF schedule.subject_id \notin DOMAIN subjects THEN "Subject not found"
    ELSE IF ~ /\ schedule.teacher_id \in DOMAIN users
              /\ users[schedule.teacher_id].role = TEACHER
    THEN "Teacher not found"
    ELSE IF schedule.semester_id \notin DOMAIN semesters THEN "Semester not found"
    ELSE IF classroom_conflict(schedule)
    THEN "Classroom is already booked at that time"
    ELSE IF teacher_conflict(schedule)
    THEN "Teacher has another class at that time"
    ELSE OK

\* db.add(db_schedule); db.commit(): the store checks the declared
\* constraints of the row.
insert_schedule_detail(schedule) ==
    IF ~uq_classroom_time(schedules, schedule) THEN IntegrityError
    ELSE IF \/ schedule.subject_id \notin DOMAIN subjects
            \/ schedule.teacher_id \notin DOMAIN users
            \/ schedule.semester_id \notin DOMAIN semesters
    THEN IntegrityError
    ELSE OK

create_schedule_result(schedule) ==
    IF create_schedule_detail(schedule) # OK
    THEN create_schedule_detail(schedule)
    ELSE insert_schedule_detail(schedule)

create_schedule(schedule) ==
    LET detail == create_schedule_result(schedule)
    IN  /\ detail = OK => nextId.schedule <= MaxSchedules
        /\ IF detail = OK
           THEN /\ schedules' = Put(schedules, nextId.schedule, schedule)
                /\ nextId' = [nextId EXCEPT !.schedule = @ + 1]
                /\ last' = RowStored
           ELSE /\ last' = Outcome("create_schedule", detail, NULL, 0)
                /\ UNCHANGED <<schedules, nextId>>
        /\ UNCHANGED <<users, semesters, subjects, enrollments, grades, pending>>

get_schedule(schedule_id) == schedule_id \in DOMAIN schedules

\* Mutant: the schedule is deleted whatever enrollments name it.
delete_schedule_result_NoGuard(schedule_id) ==
    IF ~get_schedule(schedule_id)
    THEN [detail |-> "Schedule not found", count |-> 0]
    ELSE [detail |-> OK, count |-> 0]

delete_schedule_result(schedule_id) ==
    LET enrollments_count ==
            Count({e \in DOMAIN enrollments : enrollments[e].schedule_id = schedule_id})
    IN  IF ~get_schedule(schedule_id)
        THEN [detail |-> "Schedule not found", count |-> 0]
        ELSE IF enrollments_count > 0
        THEN [detail |-> "Cannot delete schedule with enrollments",
              count |-> enrollments_count]
        ELSE [detail |-> OK, count |-> 0]

delete_schedule(schedule_id) ==
    LET r == delete_schedule_result(schedule_id)
    IN  /\ last' = Outcome("delete_schedule", r.detail, schedule_id, r.count)
        /\ IF r.detail = OK
           THEN schedules' = Remove(schedules, schedule_id)
           ELSE UNCHANGED schedules
        /\ UNCHANGED <<users, semesters, subjects, enrollments, grades, nextId,
                       pending>>

(***************************************************************************)
(* Enrollment services.                                                    *)
(***************************************************************************)
\* db.query(Schedule).join(Enrollment).filter(...).all(): the schedules of
\* the student's enrollments of the semester that overlap the target one.
student_schedules(enrollment, schedule) ==
    {e \in DOMAIN enrollments :
        /\ enrollments[e].schedule_id \in DOMAIN schedules
        /\ enrollments[e].student_id = enrollment.student_id
        /\ enrollments[e].semester_id = enrollment.semester_id
        /\ schedules[enrollments[e].schedule_id].day_of_week = schedule.day_of_week
        /\ Overlaps(schedules[enrollments[e].schedule_id], schedule)}

\* Mutant: the duplicate query also asks for the same schedule.
existing_enrollment_SameSchedule(enrollment) ==
    {e \in DOMAIN enrollments :
        /\ enrollments[e].student_id = enrollment.student_id
        /\ enrollments[e].subject_id = enrollment.subject_id
        /\ enrollments[e].semester_id = enrollment.semester_id
        /\ enrollments[e].schedule_id = enrollment.schedule_id}

\* The enrollments of the student in the subject for the semester.
existing_enrollment(enrollment) ==
    {e \in DOMAIN enrollments :
        /\ enrollments[e].student_id = enrollment.student_id
        /\ enrollments[e].subject_id = enrollment.subject_id
        /\ enrollments[e].semester_id = enrollment.semester_id}

\* Mutant: the count misses one enrollment.
current_enrollments_OffByOne(enrollment) ==
    Count({e \in DOMAIN enrollments :
            /\ enrollments[e].subject_id = enrollment.subject_id
            /\ enrollments[e].semester_id = enrollment.semester_id
            /\ enrollments[e].schedule_id = enrollment.schedule_id}) - 1

\* .count() of the enrollments of the same subject, semester and schedule
current_enrollments(enrollment) ==
    Count({e \in DOMAIN enrollments :
            /\ enrollments[e].subject_id = enrollment.subject_id
            /\ enrollments[e].semester_id = enrollment.semester_id
            /\ enrollments[e].schedule_id = enrollment.schedule_id})

\* Mutant: a grade of any evaluation type counts.
passed_prereq_AnyType(student_id, prereq) ==
    \E g \in DOMAIN grades :
        /\ grades[g].enrollment_id \in DOMAIN enrollments
        /\ enrollments[grades[g].enrollment_id].student_id = student_id
        /\ enrollments[grades[g].enrollment_id].subject_id = prereq
        /\ grades[g].score >= PassingScore

\* Enrollment.join(Grade): the student has an enrollment in prereq with a
\* grade of evaluation_type "final" and score >= 3.0
passed_prereq(student_id, prereq) ==
    \E g \in DOMAIN grades :
        /\ grades[g].enrollment_id \in DOMAIN enrollments
        /\ enrollments[grades[g].enrollment_id].student_id = student_id
        /\ enrollments[grades[g].enrollment_id].subject_id = prereq
        /\ grades[g].evaluation_type = "final"
        /\ grades[g].score >= PassingScore

\* The prerequisites the loop can stop at: the first one not passed, in the
\* order the relationship yields them, which no ORDER BY fixes.
unpassed_prereqs(enrollment) ==
    {p \in subjects[enrollment.subject_id].prerequisites :
        ~passed_prereq(enrollment.student_id, p)}

\* Mutant: the capacity check runs before the duplicate check.
create_enrollment_detail_CapacityFirst(enrollment) ==
    IF ~ /\ enrollment.student_id \in DOMAIN users
         /\ users[enrollment.student_id].role = STUDENT
    THEN "Student not found"
    ELSE IF enrollment.subject_id \notin DOMAIN subjects THEN "Subject not found"
    ELSE IF ~ /\ enrollment.schedule_id \in DOMAIN schedules
              /\ schedules[enrollment.schedule_id].subject_id = enrollment.subject_id
    THEN "Schedule not found or does not match subject"
    ELSE IF ~ /\ enrollment.semester_id \in DOMAIN semesters
              /\ semesters[enrollment.semester_id].is_active
    THEN "Active semester not found"
    ELSE IF current_enrollments(enrollment) >= subjects[enrollment.subject_id].max_students
    THEN "Subject has reached maximum capacity"
    ELSE IF student_schedules(enrollment, schedules[enrollment.schedule_id]) # {}
    THEN "Student has a schedule conflict"
    ELSE IF existing_enrollment(enrollment) # {}
    THEN "Student is already enrolled in this subject for this semester"
    ELSE IF unpassed_prereqs(enrollment) # {}
    THEN "Student has not passed prerequisite"
    ELSE OK

\* The checks of create_enrollment, in the order of the code.
create_enrollment_detail(enrollment) ==
    IF ~ /\ enrollment.student_id \in DOMAIN users
         /\ users[enrollment.student_id].role = STUDENT
    THEN "Student not found"
    ELSE IF enrollment.subject_id \notin DOMAIN subjects THEN "Subject not found"
    ELSE IF ~ /\ enrollment.schedule_id \in DOMAIN schedules
              /\ schedules[enrollment.schedule_id].subject_id = enrollment.subject_id
    THEN "Schedule not found or does not match subject"
    ELSE IF ~ /\ enrollment.semester_id \in DOMAIN semesters
              /\ semesters[enrollment.semester_id].is_active
    THEN "Active semester not found"
    ELSE IF existing_enrollment(enrollment) # {}
    THEN "Student is already enrolled in this subject for this semester"
    ELSE IF student_schedules(enrollment, schedules[enrollment.schedule_id]) # {}
    THEN "Student has a schedule conflict"
    ELSE IF current_enrollments(enrollment) >= subjects[enrollment.subject_id].max_students
    THEN "Subject has reached maximum capacity"
    ELSE IF unpassed_prereqs(enrollment) # {}
    THEN "Student has not passed prerequisite"
    ELSE OK

\* Mutant: the table declares no unique constraint.
uq_student_subject_semester_Off(table, row) == TRUE

\* UniqueConstraint('student_id', 'subject_id', 'semester_id')
uq_student_subject_semester(table, row) ==
    \A k \in DOMAIN table :
        ~ /\ table[k].student_id = row.student_id
          /\ table[k].subject_id = row.subject_id
          /\ table[k].semester_id = row.semester_id

\* Mutant: the commit counts the enrollments of the class again.
insert_enrollment_detail_Capacity(enrollment) ==
    IF ~uq_student_subject_semester(enrollments, enrollment) THEN IntegrityError
    ELSE IF current_enrollments(enrollment)
            >= subjects[enrollment.subject_id].max_students
    THEN "Subject has reached maximum capacity"
    ELSE OK

\* db.add(db_enrollment); db.commit(): the store checks the declared
\* constraints of the row.
insert_enrollment_detail(enrollment) ==
    IF ~uq_student_subject_semester(enrollments, enrollment) THEN IntegrityError
    ELSE IF \/ enrollment.student_id \notin DOMAIN users
            \/ enrollment.subject_id \notin DOMAIN subjects
            \/ enrollment.schedule_id \notin DOMAIN schedules
            \/ enrollment.semester_id \notin DOMAIN semesters
    THEN IntegrityError
    ELSE OK

create_enrollment_result(enrollment) ==
    IF create_enrollment_detail(enrollment) # OK
    THEN create_enrollment_detail(enrollment)
    ELSE insert_enrollment_detail(enrollment)

\* The whole of create_enrollment, when no other request runs beside it.
create_enrollment(enrollment) ==
    LET detail == create_enrollment_result(enrollment)
    IN  /\ detail = OK => nextId.enrollment <= MaxEnrollments
        /\ IF detail = OK
           THEN /\ enrollments' = Put(enrollments, nextId.enrollment, enrollment)
                /\ nextId' = [nextId EXCEPT !.enrollment = @ + 1]
                /\ last' = RowStored
           ELSE /\ \E named \in IF detail = "Student has not passed prerequisite"
                                THEN unpassed_prereqs(enrollment) ELSE {NULL} :
                        last' = Outcome("create_enrollment", detail, named, 0)
                /\ UNCHANGED <<enrollments, nextId>>
        /\ UNCHANGED <<users, semesters, subjects, schedules, grades, pending>>

get_enrollment(enrollment_id) == enrollment_id \in DOMAIN enrollments

delete_enrollment_result(enrollment_id) ==
    LET grades_count ==
            Count({g \in DOMAIN grades : grades[g].enrollment_id = enrollment_id})
    IN  IF ~get_enrollment(enrollment_id)
        THEN [detail |-> "Enrollment not found", count |-> 0]
        ELSE IF grades_count > 0
        THEN [detail |-> "Cannot delete enrollment with grades",
              count |-> grades_count]
        ELSE [detail |-> OK, count |-> 0]

delete_enrollment(enrollment_id) ==
    LET r == delete_enrollment_result(enrollment_id)
    IN  /\ last' = Outcome("delete_enrollment", r.detail, enrollment_id, r.count)
        /\ IF r.detail = OK
           THEN /\ enrollments' = Remove(enrollments, enrollment_id)
                /\ grades' = NullifyFK(grades, "enrollment_id", enrollment_id)
           ELSE UNCHANGED <<enrollments, grades>>
        /\ UNCHANGED <<users, semesters, subjects, schedules, nextId, pending>>

(***************************************************************************)
(* Grade services.                                                         *)
(***************************************************************************)
create_grade_detail(grade) ==
    IF grade.enrollment_id \notin DOMAIN enrollments THEN "Enrollment not found"
    ELSE IF \E g \in DOMAIN grades :
                /\ grades[g].enrollment_id = grade.enrollment_id
                /\ grades[g].evaluation_type = grade.evaluation_type
    THEN "A grade for this evaluation type already exists"
    ELSE OK

create_grade(grade) ==
    LET detail == create_grade_detail(grade)
    IN  /\ detail = OK => nextId.grade <= MaxGrades
        /\ IF detail = OK
           THEN /\ grades' = Put(grades, nextId.grade, grade)
                /\ nextId' = [nextId EXCEPT !.grade = @ + 1]
                /\ last' = RowStored
           ELSE /\ last' = Outcome("create_grade", detail, NULL, 0)
                /\ UNCHANGED <<grades, nextId>>
        /\ UNCHANGED <<users, semesters, subjects, schedules, enrollments, pending>>

get_grade(grade_id) == grade_id \in DOMAIN grades

\* grade is the dict of the fields the request sets (exclude_unset).
update_grade(grade_id, grade) ==
    /\ IF ~get_grade(grade_id)
       THEN /\ last' = Outcome("update_grade", "Grade not found", grade_id, 0)
            /\ UNCHANGED grades
       ELSE /\ grades' = [grades EXCEPT ![grade_id] =
                            [f \in DOMAIN @ |->
                                IF f \in DOMAIN grade THEN grade[f] ELSE @[f]]]
            /\ last' = IF grades' = grades
                       THEN Unchanged(Outcome("update_grade", OK, grade_id, 0))
                       ELSE RowStored
    /\ UNCHANGED <<users, semesters, subjects, schedules, enrollments, nextId,
                   pending>>

delete_grade(grade_id) ==
    /\ IF ~get_grade(grade_id)
       THEN /\ last' = Outcome("delete_grade", "Grade not found", grade_id, 0)
            /\ UNCHANGED grades
       ELSE /\ grades' = Remove(grades, grade_id)
            /\ last' = Outcome("delete_grade", OK, grade_id, 0)
    /\ UNCHANGED <<users, semesters, subjects, schedules, enrollments, nextId,
                   pending>>

(***************************************************************************)
(* Two requests side by side.  A request reads the store (its checks run   *)
(* against the rows committed so far) and later commits its row; the store *)
(* checks the declared constraints at the commit.                          *)
(***************************************************************************)
begin_create_enrollment(slot, enrollment) ==
    LET detail == create_enrollment_detail(enrollment)
    IN  /\ pending[slot].op = "none"
        /\ IF detail = OK
           THEN /\ pending' = [pending EXCEPT ![slot] =
                                 [op |-> "create_enrollment", row |-> enrollment]]
                /\ UNCHANGED last
           ELSE /\ \E named \in IF detail = "Student has not passed prerequisite"
                                THEN unpassed_prereqs(enrollment) ELSE {NULL} :
                        last' = Outcome("create_enrollment", detail, named, 0)
                /\ UNCHANGED pending
        /\ UNCHANGED <<users, semesters, subjects, schedules, enrollments, grades,
                       nextId>>

commit_create_enrollment(slot) ==
    LET enrollment == pending[slot].row
        detail == insert_enrollment_detail(enrollment)
    IN  /\ pending[slot].op = "create_enrollment"
        /\ detail = OK => nextId.enrollment <= MaxEnrollments
        /\ pending' = [pending EXCEPT ![slot] = NoPending]
        /\ IF detail = OK
           THEN /\ enrollments' = Put(enrollments, nextId.enrollment, enrollment)
                /\ nextId' = [nextId EXCEPT !.enrollment = @ + 1]
                /\ last' = RowStored
           ELSE /\ last' = Outcome("create_enrollment", detail, NULL, 0)
                /\ UNCHANGED <<enrollments, nextId>>
        /\ UNCHANGED <<users, semesters, subjects, schedules, grades>>

(***************************************************************************)
(* Routes (routes/academic.py).  current_user is the key of the caller's   *)
(* row of users.  A route raises its own HTTPException before it calls the *)
(* service, or returns what the service returns.  skip and limit keep      *)
(* their defaults, which no table of the model outgrows.                   *)
(***************************************************************************)
AttributeError == "AttributeError"

role(current_user) == users[current_user].role

\* schedule = get_schedule(enrollment.schedule_id); schedule.teacher_id
\* (NULL stands for the AttributeError of a schedule that is None)
schedule_teacher_id(enrollment_id) ==
    IF enrollments[enrollment_id].schedule_id \in DOMAIN schedules
    THEN schedules[enrollments[enrollment_id].schedule_id].teacher_id
    ELSE NULL

\* Mutant: the route lets a teacher through.
create_new_enrollment_detail_TeacherAllowed(current_user, enrollment) ==
    IF role(current_user) = STUDENT /\ enrollment.student_id # current_user
    THEN "Students can only enroll themselves"
    ELSE OK

\* The HTTPException create_new_enrollment raises itself; OK when it calls
\* create_enrollment.
create_new_enrollment_detail(current_user, enrollment) ==
    IF role(current_user) = STUDENT /\ enrollment.student_id # current_user
    THEN "Students can only enroll themselves"
    ELSE IF role(current_user) = TEACHER
    THEN "Teachers cannot create enrollments"
    ELSE OK

create_new_enrollment(current_user, enrollment) ==
    LET detail == create_new_enrollment_detail(current_user, enrollment)
    IN  IF detail # OK
        THEN /\ last' = Outcome("create_new_enrollment", detail, NULL, 0)
             /\ UNCHANGED <<users, semesters, subjects, schedules, enrollments,
                            grades, nextId, pending>>
        ELSE create_enrollment(enrollment)

\* query.filter(...) for each filter that is given; None and 0 are not.
get_enrollments(student_id, subject_id, semester_id) ==
    {e \in DOMAIN enrollments :
        /\ student_id # NULL => enrollments[e].student_id = student_id
        /\ subject_id # NULL => enrollments[e].subject_id = subject_id
        /\ semester_id # NULL => enrollments[e].semester_id = semester_id}

\* The keys of the enrollments read_enrollments returns.
read_enrollments_body(current_user, student_id, subject_id, semester_id) ==
    get_enrollments(IF role(current_user) = STUDENT THEN current_user
                    ELSE student_id,
                    subject_id, semester_id)

read_enrollments(current_user, student_id, subject_id, semester_id) ==
    /\ last' = Returned("read_enrollments", NULL,
                        read_enrollments_body(current_user, student_id,
                                              subject_id, semester_id))
    /\ UNCHANGED <<users, semesters, subjects, schedules, enrollments, grades,
                   nextId, pending>>

read_enrollment_detail(current_user, enrollment_id) ==
    IF ~get_enrollment(enrollment_id) THEN "Enrollment not found"
    ELSE IF /\ role(current_user) = STUDENT
            /\ enrollments[enrollment_id].student_id # current_user
    THEN "Access denied to this enrollment"
    ELSE OK

read_enrollment(current_user, enrollment_id) ==
    LET detail == read_enrollment_detail(current_user, enrollment_id)
    IN  /\ last' = IF detail = OK
                   THEN Returned("read_enrollment", enrollment_id, {enrollment_id})
                   ELSE Outcome("read_enrollment", detail, enrollment_id, 0)
        /\ UNCHANGED <<users, semesters, subjects, schedules, enrollments,
                       grades, nextId, pending>>

\* Mutant: the route lets a teacher through.
delete_enrollment_record_detail_TeacherAllowed(current_user, enrollment_id) ==
    IF ~get_enrollment(enrollment_id) THEN "Enrollment not found"
    ELSE IF /\ role(current_user) = STUDENT
            /\ enrollments[enrollment_id].student_id # current_user
    THEN "Students can only delete their own enrollments"
    ELSE OK

\* The HTTPException delete_enrollment_record raises itself; OK when it
\* calls delete_enrollment.
delete_enrollment_record_detail(current_user, enrollment_id) ==
    IF ~get_enrollment(enrollment_id) THEN "Enrollment not found"
    ELSE IF /\ role(current_user) = STUDENT
            /\ enrollments[enrollment_id].student_id # current_user
    THEN "Students can only delete their own enrollments"
    ELSE IF role(current_user) = TEACHER
    THEN "Teachers cannot delete enrollments"
    ELSE OK

delete_enrollment_record(current_user, enrollment_id) ==
    LET detail == delete_enrollment_record_detail(current_user, enrollment_id)
    IN  IF detail # OK
        THEN /\ last' = Outcome("delete_enrollment_record", detail, enrollment_id, 0)
             /\ UNCHANGED <<users, semesters, subjects, schedules, enrollments,
                            grades, nextId, pending>>
        ELSE delete_enrollment(enrollment_id)

\* Mutant: a teacher may grade any class.
create_new_grade_detail_AnyTeacher(current_user, grade) ==
    IF ~get_enrollment(grade.enrollment_id) THEN "Enrollment not found"
    ELSE IF role(current_user) = STUDENT
    THEN "Students cannot create grades"
    ELSE OK

\* The HTTPException create_new_grade raises itself; OK when it calls
\* create_grade.
create_new_grade_detail(current_user, grade) ==
    IF ~get_enrollment(grade.enrollment_id) THEN "Enrollment not found"
    ELSE IF /\ role(current_user) = TEACHER
            /\ schedule_teacher_id(grade.enrollment_id) = NULL
    THEN AttributeError
    ELSE IF /\ role(current_user) = TEACHER
            /\ schedule_teacher_id(grade.enrollment_id) # current_user
    THEN "Teachers can only grade their own classes"
    ELSE IF role(current_user) = STUDENT
    THEN "Students cannot create grades"
    ELSE OK

create_new_grade(current_user, grade) ==
    LET detail == create_new_grade_detail(current_user, grade)
    IN  IF detail # OK
        THEN /\ last' = Outcome("create_new_grade", detail, grade.enrollment_id, 0)
             /\ UNCHANGED <<users, semesters, subjects, schedules, enrollments,
                            grades, nextId, pending>>
        ELSE create_grade(grade)

\* query.filter(Grade.enrollment_id == enrollment_id) if enrollment_id is
\* given; None and 0 are not.
get_grades(enrollment_id) ==
    {g \in DOMAIN grades :
        enrollment_id # NULL => grades[g].enrollment_id = enrollment_id}

\* The checks of read_grades run inside "if enrollment_id:".
read_grades_detail(current_user, enrollment_id) ==
    IF enrollment_id = NULL THEN OK
    ELSE IF ~get_enrollment(enrollment_id) THEN "Enrollment not found"
    ELSE IF /\ role(current_user) = STUDENT
            /\ enrollments[enrollment_id].student_id # current_user
    THEN "Students can only see their own grades"
    ELSE IF /\ role(current_user) = TEACHER
            /\ schedule_teacher_id(enrollment_id) = NULL
    THEN AttributeError
    ELSE IF /\ role(current_user) = TEACHER
            /\ schedule_teacher_id(enrollment_id) # current_user
    THEN "Teachers can only see grades for their classes"
    ELSE OK

\* The keys of the grades read_grades returns, when it returns.
read_grades_body(current_user, enrollment_id) == get_grades(enrollment_id)

read_grades(current_user, enrollment_id) ==
    LET detail == read_grades_detail(current_user, enrollment_id)
    IN  /\ last' = IF detail = OK
                   THEN Returned("read_grades", enrollment_id,
                                 read_grades_body(current_user, enrollment_id))
                   ELSE Outcome("read_grades", detail, enrollment_id, 0)
        /\ UNCHANGED <<users, semesters, subjects, schedules, enrollments,
                       grades, nextId, pending>>

read_grade_detail(current_user, grade_id) ==
    IF ~get_grade(grade_id) THEN "Grade not found"
    ELSE IF /\ role(current_user) \in {STUDENT, TEACHER}
            /\ ~get_enrollment(grades[grade_id].enrollment_id)
    THEN AttributeError
    ELSE IF /\ role(current_user) = STUDENT
            /\ enrollments[grades[grade_id].enrollment_id].student_id # current_user
    THEN "Students can only see their own grades"
    ELSE IF /\ role(current_user) = TEACHER
            /\ schedule_teacher_id(grades[grade_id].enrollment_id) = NULL
    THEN AttributeError
    ELSE IF /\ role(current_user) = TEACHER
            /\ schedule_teacher_id(grades[grade_id].enrollment_id) # current_user
    THEN "Teachers can only see grades for their classes"
    ELSE OK

read_grade(current_user, grade_id) ==
    LET detail == read_grade_detail(current_user, grade_id)
    IN  /\ last' = IF detail = OK
                   THEN Returned("read_grade", grade_id, {grade_id})
                   ELSE Outcome("read_grade", detail, grade_id, 0)
        /\ UNCHANGED <<users, semesters, subjects, schedules, enrollments,
                       grades, nextId, pending>>

\* The HTTPException update_grade_info raises itself; OK when it calls
\* update_grade.
update_grade_info_detail(current_user, grade_id) ==
    IF ~get_grade(grade_id) THEN "Grade not found"
    ELSE IF role(current_user) = STUDENT
    THEN "Students cannot update grades"
    ELSE IF /\ role(current_user) = TEACHER
            /\ \/ ~get_enrollment(grades[grade_id].enrollment_id)
               \/ schedule_teacher_id(grades[grade_id].enrollment_id) = NULL
    THEN AttributeError
    ELSE IF /\ role(current_user) = TEACHER
            /\ schedule_teacher_id(grades[grade_id].enrollment_id) # current_user
    THEN "Teachers can only update grades for their classes"
    ELSE OK

update_grade_info(current_user, grade_id, grade) ==
    LET detail == update_grade_info_detail(current_user, grade_id)
    IN  IF detail # OK
        THEN /\ last' = Outcome("update_grade_info", detail, grade_id, 0)
             /\ UNCHANGED <<users, semesters, subjects, schedules, enrollments,
                            grades, nextId, pending>>
        ELSE update_grade(grade_id, grade)

(***************************************************************************)
(* The requests the specifications draw from.                              *)
(*                                                                         *)
(* A call that raises, or that writes the values a row already has, leaves *)
(* the store as it was.  A behaviour is therefore followed up to its first *)
(* such call: every store the program reaches is reached through the calls *)
(* that change it, and each rejection is seen in the store it was raised   *)
(* in.                                                                     *)
(***************************************************************************)
Stored == last.stored

SemesterIds == 1..(MaxSemesters + 1)
SubjectIds == 1..(MaxSubjects + 1)
ScheduleIds == 1..(MaxSchedules + 1)
EnrollmentIds == 1..(MaxEnrollments + 1)
GradeIds == 1..(MaxGrades + 1)
FollowedGradeIds == 1..(MaxGradesFollowed + 1)

ScheduleRow(subject_id, teacher_id, semester_id, day_of_week, slot, classroom) ==
    [subject_id |-> subject_id, teacher_id |-> teacher_id,
     semester_id |-> semester_id, day_of_week |-> day_of_week,
     start_time |-> slot[1], end_time |-> slot[2], classroom |-> classroom]

\* Two classes that meet end to start, and a class given with an unpadded
\* hour, which strptime("%H:%M") accepts.
TimeSlots == {<<"10:00", "11:00">>, <<"11:00", "12:00">>, <<"9:00", "10:00">>}

\* The requests whose subject, teacher and semester can exist, and three
\* whose subject, teacher or semester never does (user 3 is a student).
ScheduleRequests ==
    {ScheduleRow(1, t, se, d, sl, c) :
        t \in {1, 2}, se \in {1, 2}, d \in {0, 1}, sl \in TimeSlots,
        c \in {"A", "B"}}
    \cup {ScheduleRow(MaxSubjects + 1, 1, 1, 0, <<"10:00", "11:00">>, "A"),
          ScheduleRow(1, 3, 1, 0, <<"10:00", "11:00">>, "A"),
          ScheduleRow(1, 1, MaxSemesters + 1, 0, <<"10:00", "11:00">>, "A")}

(***************************************************************************)
(* SpecSchedule: the schedule engine, one call at a time.                  *)
(***************************************************************************)
NextSchedule ==
    \/ Stored /\ create_semester(1, TRUE)
    \/ Stored /\ create_subject(3, 1, <<>>)
    \/ Stored /\ \E schedule \in ScheduleRequests : create_schedule(schedule)
    \/ Stored /\ \E schedule_id \in ScheduleIds : delete_schedule(schedule_id)

SpecSchedule == Init /\ [][NextSchedule]_vars

(***************************************************************************)
(* Spec: the enrollment engine, one call at a time.  Each subject has its  *)
(* own teacher and classroom, so that two classes may meet at the same     *)
(* time; user 1 is a teacher, not a student.                               *)
(***************************************************************************)
SubjectRequests == {<<1, <<>>>>, <<2, <<1>>>>}

\* Two classes that meet end to start, the first given with an unpadded hour.
ClassSlots == {<<"9:00", "10:00">>, <<"10:00", "11:00">>}

ClassRequests ==
    {ScheduleRow(su, su, 1, 0, sl, IF su = 1 THEN "A" ELSE "B") :
        su \in 1..MaxSubjects, sl \in ClassSlots}

EnrollmentRow(student_id, subject_id, schedule_id, semester_id) ==
    [student_id |-> student_id, subject_id |-> subject_id,
     schedule_id |-> schedule_id, semester_id |-> semester_id]

EnrollmentRequests ==
    {EnrollmentRow(st, su, sc, se) :
        st \in {3, 4}, su \in 1..MaxSubjects, sc \in 1..MaxSchedules,
        se \in 1..MaxSemesters}
    \cup {EnrollmentRow(1, 1, 1, 1)}

GradeRow(enrollment_id, evaluation_type, weight, score) ==
    [enrollment_id |-> enrollment_id, evaluation_type |-> evaluation_type,
     weight |-> weight, score |-> score]

\* Scores and weights in tenths: a final grade of 2.9 or 3.0 and a partial
\* grade of 3.0, weight 1.0.
GradeRequests ==
    {GradeRow(e, g[1], 10, g[2]) :
        e \in 1..MaxEnrollments,
        g \in {<<"final", 29>>, <<"final", 30>>, <<"partial1", 30>>}}

Next ==
    \/ Stored /\ create_semester(1, TRUE)
    \/ Stored /\ \E semester_id \in SemesterIds, is_active \in BOOLEAN :
                    update_semester(semester_id, is_active)
    \/ Stored /\ \E subject \in SubjectRequests :
                    create_subject(3, subject[1], subject[2])
    \/ Stored /\ \E schedule \in ClassRequests : create_schedule(schedule)
    \/ Stored /\ \E enrollment \in EnrollmentRequests :
                    create_enrollment(enrollment)
    \/ Stored /\ nextId.grade <= MaxGradesFollowed
              /\ \E grade \in GradeRequests : create_grade(grade)

Spec == Init /\ [][Next]_vars

(***************************************************************************)
(* SpecConc: create_enrollment requests side by side.  Each request runs   *)
(* its checks against the committed rows and commits later, so the checks  *)
(* of one request may run between the checks and the commit of another.    *)
(***************************************************************************)
Slots == 1..MaxPending

ConcClassRequests ==
    {ScheduleRow(1, 1, 1, 0, <<"10:00", "11:00">>, "A"),
     ScheduleRow(1, 2, 1, 0, <<"11:00", "12:00">>, "B")}

ConcEnrollmentRequests ==
    {EnrollmentRow(st, 1, sc, 1) : st \in {3, 4}, sc \in 1..MaxSchedules}

NextConc ==
    \/ create_semester(1, TRUE)
    \/ create_subject(3, 2, <<>>)
    \/ \E schedule \in ConcClassRequests : create_schedule(schedule)
    \/ \E slot \in Slots, enrollment \in ConcEnrollmentRequests :
            begin_create_enrollment(slot, enrollment)
    \/ \E slot \in Slots : commit_create_enrollment(slot)

SpecConc == Init /\ [][NextConc]_vars

(***************************************************************************)
(* SpecDelete: the life of the rows, one call at a time: creations,        *)
(* field updates and deletions of every table.  User 6 does not exist.     *)
(***************************************************************************)
DeleteClassRequests ==
    {ScheduleRow(su, 1, se, su - 1, <<"10:00", "11:00">>, "A") :
        su \in 1..MaxSubjects, se \in 1..MaxSemesters}

DeleteEnrollmentRequests ==
    {EnrollmentRow(3, su, sc, se) :
        su \in 1..MaxSubjects, sc \in 1..MaxSchedules, se \in 1..MaxSemesters}

DeleteGradeRequests == {GradeRow(e, "final", 10, 30) : e \in 1..MaxEnrollments}

SubjectUpdates == {[f \in {"max_students"} |-> 1]}

GradeUpdates == {[f \in {"score"} |-> 29]}

UserIds == {3, Len(SeedUsers) + 1}

NextDelete ==
    \/ Stored /\ create_semester(1, TRUE)
    \/ Stored /\ create_subject(3, 2, <<>>)
    \/ Stored /\ \E schedule \in DeleteClassRequests : create_schedule(schedule)
    \/ Stored /\ \E enrollment \in DeleteEnrollmentRequests :
                    create_enrollment(enrollment)
    \/ Stored /\ nextId.grade <= MaxGradesFollowed
              /\ \E grade \in DeleteGradeRequests : create_grade(grade)
    \/ Stored /\ \E subject_id \in SubjectIds, subject \in SubjectUpdates :
                    update_subject(subject_id, subject)
    \/ Stored /\ \E grade_id \in FollowedGradeIds, grade \in GradeUpdates :
                    update_grade(grade_id, grade)
    \/ Stored /\ \E user_id \in UserIds : update_user(user_id, TEACHER)
    \/ Stored /\ \E semester_id \in SemesterIds : delete_semester(semester_id)
    \/ Stored /\ \E subject_id \in SubjectIds : delete_subject(subject_id)
    \/ Stored /\ \E schedule_id \in ScheduleIds : delete_schedule(schedule_id)
    \/ Stored /\ \E enrollment_id \in EnrollmentIds :
                    delete_enrollment(enrollment_id)
    \/ Stored /\ \E grade_id \in FollowedGradeIds : delete_grade(grade_id)
    \/ Stored /\ \E user_id \in UserIds : delete_user(user_id)

SpecDelete == Init /\ [][NextDelete]_vars

(***************************************************************************)
(* The claims about the schedule engine.                                   *)
(***************************************************************************)
\* The outcomes of create_schedule the error taxonomy calls a conflict.
ScheduleConflicts ==
    {"Classroom is already booked at that time",
     "Teacher has another class at that time"}

\* The overlap test as stated, on the times of two classes:
\* a.start <= b.end AND a.end >= b.start.
StatedTest(a, b) ==
    /\ Minutes(a.start_time) <= Minutes(b.end_time)
    /\ Minutes(a.end_time) >= Minutes(b.start_time)

SameSemesterAndDay(a, b) ==
    /\ a.semester_id # NULL
    /\ a.semester_id = b.semester_id
    /\ a.day_of_week = b.day_of_week

\* C1: after any sequence of create_schedule and delete_schedule calls, no
\* two stored schedules of the same semester and day share a classroom or a
\* teacher while their times overlap by the stated test.
C1_NoDoubleBooking ==
    \A a, b \in DOMAIN schedules :
        ( /\ a # b
          /\ SameSemesterAndDay(schedules[a], schedules[b])
          /\ \/ schedules[a].classroom = schedules[b].classroom
             \/ schedules[a].teacher_id = schedules[b].teacher_id )
        => ~StatedTest(schedules[a], schedules[b])

RefsExist(schedule) ==
    /\ schedule.subject_id \in DOMAIN subjects
    /\ schedule.teacher_id \in DOMAIN users
    /\ users[schedule.teacher_id].role = TEACHER
    /\ schedule.semester_id \in DOMAIN semesters

\* A stored class of the semester, day and classroom of the request.
SameRoom(k, S2) ==
    /\ SameSemesterAndDay(schedules[k], S2)
    /\ schedules[k].classroom = S2.classroom

\* C2: with subject, teacher and semester existing, create_schedule(S2) is
\* refused as a conflict exactly when a stored S1 of the same semester, day
\* and classroom meets the stated test with it; in particular a class that
\* starts exactly when a stored one ends is refused.
C2_ConflictIffStatedTest ==
    \A S2 \in ScheduleRequests :
        RefsExist(S2) =>
            /\ (\E k \in DOMAIN schedules :
                    SameRoom(k, S2) /\ StatedTest(schedules[k], S2))
               => create_schedule_result(S2) \in ScheduleConflicts
            /\ create_schedule_result(S2) = "Classroom is already booked at that time"
               => \E k \in DOMAIN schedules :
                    SameRoom(k, S2) /\ StatedTest(schedules[k], S2)
            /\ \A k \in DOMAIN schedules :
                    ( /\ SameRoom(k, S2)
                      /\ Minutes(S2.start_time) = Minutes(schedules[k].end_time) )
                    => create_schedule_result(S2) \in ScheduleConflicts

(***************************************************************************)
(* The claims about the enrollment engine.                                 *)
(***************************************************************************)
\* The condition each check of create_enrollment reports, in the stated
\* order: student, subject, schedule-matches-subject, active semester,
\* duplicate, student time conflict, capacity, prerequisites.
Condition ==
    <<"Student not found",
      "Subject not found",
      "Schedule not found or does not match subject",
      "Active semester not found",
      "Student is already enrolled in this subject for this semester",
      "Student has a schedule conflict",
      "Subject has reached maximum capacity",
      "Student has not passed prerequisite">>

\* The student has an Enrollment in subject A carrying a Grade "final" >= 3.0.
HasPassingFinal(student_id, A) ==
    \E e \in DOMAIN enrollments, g \in DOMAIN grades :
        /\ enrollments[e].student_id = student_id
        /\ enrollments[e].subject_id = A
        /\ grades[g].enrollment_id = e
        /\ grades[g].evaluation_type = "final"
        /\ grades[g].score >= PassingScore

\* The Enrollments that share subject, semester and schedule with request r.
SameClass(r) ==
    {e \in DOMAIN enrollments :
        /\ enrollments[e].subject_id = r.subject_id
        /\ enrollments[e].semester_id = r.semester_id
        /\ enrollments[e].schedule_id = r.schedule_id}

\* The Enrollments of the triple (student, subject, semester) of request r.
SameTriple(r) ==
    {e \in DOMAIN enrollments :
        /\ enrollments[e].student_id = r.student_id
        /\ enrollments[e].subject_id = r.subject_id
        /\ enrollments[e].semester_id = r.semester_id}

\* Request r violates check k of the stated order.  The time test of check 6
\* is the comparison the store makes.
Violates(k, r) ==
    CASE k = 1 -> ~ (r.student_id \in DOMAIN users
                     /\ users[r.student_id].role = STUDENT)
      [] k = 2 -> r.subject_id \notin DOMAIN subjects
      [] k = 3 -> ~ (r.schedule_id \in DOMAIN schedules
                     /\ schedules[r.schedule_id].subject_id = r.subject_id)
      [] k = 4 -> ~ (r.semester_id \in DOMAIN semesters
                     /\ semesters[r.semester_id].is_active)
      [] k = 5 -> SameTriple(r) # {}
      [] k = 6 -> /\ r.schedule_id \in DOMAIN schedules
                  /\ \E e \in DOMAIN enrollments :
                        /\ enrollments[e].student_id = r.student_id
                        /\ enrollments[e].semester_id = r.semester_id
                        /\ enrollments[e].schedule_id \in DOMAIN schedules
                        /\ LET mine == schedules[enrollments[e].schedule_id]
                               target == schedules[r.schedule_id]
                           IN  /\ mine.day_of_week = target.day_of_week
                               /\ StrLE(mine.start_time, target.end_time)
                               /\ StrLE(target.start_time, mine.end_time)
      [] k = 7 -> /\ r.subject_id \in DOMAIN subjects
                  /\ Cardinality(SameClass(r)) >= subjects[r.subject_id].max_students
      [] k = 8 -> /\ r.subject_id \in DOMAIN subjects
                  /\ \E A \in subjects[r.subject_id].prerequisites :
                        ~HasPassingFinal(r.student_id, A)

Violated(r) == {k \in 1..8 : Violates(k, r)}

Earliest(checks) == CHOOSE k \in checks : \A other \in checks : k <= other

\* C4 as claimed: while an Enrollment of (student, subject, semester) is
\* stored, a further create_enrollment for the triple fails and the failure
\* it reports is the duplicate-enrollment conflict.
C4_DuplicateAlwaysReported ==
    \A r \in EnrollmentRequests :
        SameTriple(r) # {} => create_enrollment_result(r) = Condition[5]

\* C4, amended: while an Enrollment of (student, subject, semester) is
\* stored, a further create_enrollment for the triple fails; it reports the
\* duplicate-enrollment conflict when student, subject, schedule and active
\* semester pass their checks, and the not-found of the earliest of those
\* four that does not otherwise.
C4_DuplicateAlwaysFails ==
    \A r \in EnrollmentRequests :
        SameTriple(r) # {} =>
            /\ create_enrollment_result(r) # OK
            /\ create_enrollment_result(r) = Condition[Earliest(Violated(r))]
            /\ Earliest(Violated(r)) <= 5
            /\ Violated(r) \cap 1..4 = {}
               => create_enrollment_result(r) = Condition[5]

\* The second create_enrollment of a stored triple was refused as a duplicate.
C4_Witness ==
    /\ last.op = "create_enrollment"
    /\ last.detail = Condition[5]
    /\ \E r \in EnrollmentRequests :
        SameTriple(r) # {} /\ Violated(r) \cap 1..4 = {}

\* C5: a create_enrollment whose earlier checks pass and whose prerequisites
\* are met fails with capacity-exceeded when the Enrollments of its subject,
\* semester and schedule number max_students, and succeeds when they are
\* fewer.
C5_Capacity ==
    \A r \in EnrollmentRequests :
        Violated(r) \cap ((1..6) \cup {8}) = {} =>
            /\ Cardinality(SameClass(r)) = subjects[r.subject_id].max_students
               => create_enrollment_result(r) = Condition[7]
            /\ Cardinality(SameClass(r)) < subjects[r.subject_id].max_students
               => create_enrollment_result(r) = OK

\* A class is full, a further student was refused for capacity, and the
\* enrollments that filled it were accepted.
C5_Witness ==
    /\ last.op = "create_enrollment"
    /\ last.detail = Condition[7]
    /\ \E r \in EnrollmentRequests :
        /\ Violated(r) = {7}
        /\ Cardinality(SameClass(r)) = subjects[r.subject_id].max_students

\* C6: a create_enrollment that passes the seven earlier checks, into a
\* subject B, fails with prerequisite-unmet, naming a prerequisite A of B
\* for which the student has no Enrollment carrying a "final" Grade >= 3.0,
\* when there is such an A; and it is accepted when there is none.
C6_PrerequisiteGate ==
    \A r \in EnrollmentRequests :
        Violated(r) \cap 1..7 = {} =>
            LET B == subjects[r.subject_id]
                unmet == {A \in B.prerequisites : ~HasPassingFinal(r.student_id, A)}
            IN  /\ unmet # {} =>
                    /\ create_enrollment_result(r) = Condition[8]
                    /\ unpassed_prereqs(r) # {}
                    /\ unpassed_prereqs(r) \subseteq unmet
                /\ unmet = {} => create_enrollment_result(r) = OK

\* A student with a final grade of 3.0 in A is enrolled in B, and another
\* request was refused naming prerequisite A.
C6_Witness ==
    /\ last.op = "create_enrollment"
    /\ last.detail = Condition[8]
    /\ last.id \in DOMAIN subjects
    /\ \E e \in DOMAIN enrollments :
        /\ enrollments[e].subject_id \in DOMAIN subjects
        /\ subjects[enrollments[e].subject_id].prerequisites # {}

\* C7: no student holds two Enrollments of the same semester whose Schedules
\* are on the same day with times that overlap by the stated test.
C7_NoStudentOverlap ==
    \A e1, e2 \in DOMAIN enrollments :
        ( /\ e1 # e2
          /\ enrollments[e1].student_id = enrollments[e2].student_id
          /\ enrollments[e1].semester_id = enrollments[e2].semester_id
          /\ enrollments[e1].schedule_id \in DOMAIN schedules
          /\ enrollments[e2].schedule_id \in DOMAIN schedules
          /\ schedules[enrollments[e1].schedule_id].day_of_week
               = schedules[enrollments[e2].schedule_id].day_of_week )
        => ~StatedTest(schedules[enrollments[e1].schedule_id],
                       schedules[enrollments[e2].schedule_id])

\* C8: create_enrollment reports the condition of the earliest check the
\* request violates, in the order student, subject, schedule-matches-subject,
\* active semester, duplicate, student time conflict, capacity,
\* prerequisites; it accepts a request that violates none; and the eight
\* conditions are distinct.
C8_CheckOrder ==
    /\ \A r \in EnrollmentRequests :
        create_enrollment_result(r) =
            IF Violated(r) = {} THEN OK ELSE Condition[Earliest(Violated(r))]
    /\ \A j, k \in 1..8 : j # k => Condition[j] # Condition[k]

\* A request that violates both the duplicate and the capacity check was
\* refused as a duplicate.
C8_Witness ==
    /\ last.op = "create_enrollment"
    /\ last.detail = Condition[5]
    /\ \E r \in EnrollmentRequests : {5, 7} \subseteq Violated(r)

(***************************************************************************)
(* The claims about requests side by side.                                 *)
(***************************************************************************)
\* C3: in every reachable state, the states reached by interleaved
\* create_enrollment requests included, no two Enrollments have the same
\* (student_id, subject_id, semester_id).
C3_UniqueTriple ==
    \A e1, e2 \in DOMAIN enrollments :
        ( /\ enrollments[e1].student_id = enrollments[e2].student_id
          /\ enrollments[e1].subject_id = enrollments[e2].subject_id
          /\ enrollments[e1].semester_id = enrollments[e2].semester_id )
        => e1 = e2

\* Two requests for one triple both passed the duplicate check; the first
\* commit stored its row and the store refused the second.
C3_Witness ==
    /\ last.op = "create_enrollment"
    /\ last.detail = IntegrityError
    /\ enrollments # EmptyTable

(***************************************************************************)
(* The claims about deletion.                                              *)
(***************************************************************************)
\* The direct dependents of a row: the Enrollments that name a Semester, a
\* Subject or a Schedule, the Grades that name an Enrollment.
Dependents(op, id) ==
    CASE op = "delete_semester" ->
            {e \in DOMAIN enrollments : enrollments[e].semester_id = id}
      [] op = "delete_subject" ->
            {e \in DOMAIN enrollments : enrollments[e].subject_id = id}
      [] op = "delete_schedule" ->
            {e \in DOMAIN enrollments : enrollments[e].schedule_id = id}
      [] op = "delete_enrollment" ->
            {g \in DOMAIN grades : grades[g].enrollment_id = id}

Entities(op) ==
    CASE op = "delete_semester" -> DOMAIN semesters
      [] op = "delete_subject" -> DOMAIN subjects
      [] op = "delete_schedule" -> DOMAIN schedules
      [] op = "delete_enrollment" -> DOMAIN enrollments

Result(op, id) ==
    CASE op = "delete_semester" -> delete_semester_result(id)
      [] op = "delete_subject" -> delete_subject_result(id)
      [] op = "delete_schedule" -> delete_schedule_result(id)
      [] op = "delete_enrollment" -> delete_enrollment_result(id)

Refusal(op) ==
    CASE op = "delete_semester" -> "Cannot delete semester with enrollments"
      [] op = "delete_subject" -> "Cannot delete subject with enrollments"
      [] op = "delete_schedule" -> "Cannot delete schedule with enrollments"
      [] op = "delete_enrollment" -> "Cannot delete enrollment with grades"

GuardedDeletes ==
    {"delete_semester", "delete_subject", "delete_schedule", "delete_enrollment"}

\* C9: delete_semester, delete_subject, delete_schedule and
\* delete_enrollment of an existing row are refused, reporting the exact
\* number of its direct dependents, when that number is at least 1, and
\* succeed when it is 0; the row of a deletion that succeeded is gone and
\* the row of one that was refused is still stored.
C9_DeleteGuards ==
    /\ \A op \in GuardedDeletes : \A id \in Entities(op) :
        LET n == Cardinality(Dependents(op, id))
        IN  /\ n >= 1 => Result(op, id) = [detail |-> Refusal(op), count |-> n]
            /\ n = 0 => Result(op, id).detail = OK
    /\ last.op \in GuardedDeletes =>
        /\ last.detail = OK => last.id \notin Entities(last.op)
        /\ last.detail = Refusal(last.op) =>
            /\ last.id \in Entities(last.op)
            /\ last.count = Cardinality(Dependents(last.op, last.id))
            /\ last.count >= 1

\* The deletion of a schedule that two enrollments name was refused with
\* the count 2.
C9_Witness ==
    /\ last.op = "delete_schedule"
    /\ last.detail = Refusal("delete_schedule")
    /\ last.count = 2

\* C10: after any sequence of creations, updates and deletions, every
\* Schedule references an existing Subject, Semester and teacher User,
\* every Enrollment references an existing student User, Subject, Schedule
\* and Semester, and every Grade references an existing Enrollment.
C10_ReferentialIntegrity ==
    /\ \A k \in DOMAIN schedules :
        /\ schedules[k].subject_id \in DOMAIN subjects
        /\ schedules[k].semester_id \in DOMAIN semesters
        /\ schedules[k].teacher_id \in DOMAIN users
        /\ users[schedules[k].teacher_id].role = TEACHER
    /\ \A e \in DOMAIN enrollments :
        /\ enrollments[e].student_id \in DOMAIN users
        /\ users[enrollments[e].student_id].role = STUDENT
        /\ enrollments[e].subject_id \in DOMAIN subjects
        /\ enrollments[e].schedule_id \in DOMAIN schedules
        /\ enrollments[e].semester_id \in DOMAIN semesters
    /\ \A g \in DOMAIN grades : grades[g].enrollment_id \in DOMAIN enrollments

(***************************************************************************)
(* SpecPolicy: the enrollment and grade routes, one call at a time, called *)
(* by each user.  Class 1 is taught by teacher 1 and class 2 by teacher 2; *)
(* enrollment 3 and grade 3 never exist.                                   *)
(***************************************************************************)
Callers == DOMAIN SeedUsers

PolicyGradeRequests ==
    {GradeRow(e, t, 10, 30) : e \in EnrollmentIds, t \in {"final", "partial1"}}

PolicyGradeUpdates == {[f \in {"score"} |-> 29]}

\* The values of a filter of a list route: not given, or a key.
StudentFilters == {NULL, 3, 4}
SubjectFilters == {NULL, 1}
SemesterFilters == {NULL, 1}
EnrollmentFilters == {NULL} \cup EnrollmentIds

NextPolicy ==
    \/ Stored /\ create_semester(1, TRUE)
    \/ Stored /\ create_subject(3, 2, <<>>)
    \/ Stored /\ \E schedule \in ConcClassRequests : create_schedule(schedule)
    \/ Stored /\ \E current_user \in Callers, enrollment \in ConcEnrollmentRequests :
                    create_new_enrollment(current_user, enrollment)
    \/ Stored /\ \E current_user \in Callers, student_id \in StudentFilters,
                    subject_id \in SubjectFilters, semester_id \in SemesterFilters :
                    read_enrollments(current_user, student_id, subject_id, semester_id)
    \/ Stored /\ \E current_user \in Callers, enrollment_id \in EnrollmentIds :
                    read_enrollment(current_user, enrollment_id)
    \/ Stored /\ \E current_user \in Callers, enrollment_id \in EnrollmentIds :
                    delete_enrollment_record(current_user, enrollment_id)
    \/ Stored /\ \E current_user \in Callers, grade \in PolicyGradeRequests :
                    create_new_grade(current_user, grade)
    \/ Stored /\ \E current_user \in Callers, enrollment_id \in EnrollmentFilters :
                    read_grades(current_user, enrollment_id)
    \/ Stored /\ \E current_user \in Callers, grade_id \in GradeIds :
                    read_grade(current_user, grade_id)
    \/ Stored /\ \E current_user \in Callers, grade_id \in GradeIds,
                    grade \in PolicyGradeUpdates :
                    update_grade_info(current_user, grade_id, grade)

SpecPolicy == Init /\ [][NextPolicy]_vars

(***************************************************************************)
(* The claims about the role checks of the routes.                         *)
(***************************************************************************)
\* permission-denied: the details raised with HTTP_403_FORBIDDEN.
PermissionDenied ==
    {"Students can only enroll themselves",
     "Teachers cannot create enrollments",
     "Access denied to this enrollment",
     "Students can only delete their own enrollments",
     "Teachers cannot delete enrollments",
     "Teachers can only grade their own classes",
     "Students cannot create grades",
     "Students can only see their own grades",
     "Teachers can only see grades for their classes",
     "Students cannot update grades",
     "Teachers can only update grades for their classes"}

\* not-found: the details raised with status 404.
NotFound == {"Enrollment not found", "Grade not found"}

Students == {u \in DOMAIN users : users[u].role = STUDENT}
Teachers == {u \in DOMAIN users : users[u].role = TEACHER}
Admins == {u \in DOMAIN users : users[u].role = ADMIN}

\* C11: a student who tries to create a Grade always gets
\* permission-denied, whether the enrollment named exists or not, is the
\* student's own or not, and has the evaluation type graded or not.
C11_StudentCreateGradeDenied ==
    \A current_user \in Students, grade \in PolicyGradeRequests :
        create_new_grade_detail(current_user, grade) \in PermissionDenied

\* The grades the read policy lets a caller see: a student those of the
\* student's own enrollments, a teacher those of the enrollments of the
\* teacher's own classes, an administrator all.
MayRead(current_user, g) ==
    LET enrollment == enrollments[grades[g].enrollment_id]
    IN  CASE current_user \in Students -> enrollment.student_id = current_user
          [] current_user \in Teachers ->
                schedules[enrollment.schedule_id].teacher_id = current_user
          [] OTHER -> TRUE

\* C12: neither the single-grade read nor the grade list, with any value
\* of the enrollment filter or with none, returns to a student a Grade of
\* another student's Enrollment, or to a teacher a Grade of an Enrollment
\* whose Schedule has another teacher_id.
C12_GradeReadRestricted ==
    /\ \A current_user \in Students \cup Teachers,
          enrollment_id \in EnrollmentFilters :
            read_grades_detail(current_user, enrollment_id) = OK
            => \A g \in read_grades_body(current_user, enrollment_id) :
                    MayRead(current_user, g)
    /\ \A current_user \in Students \cup Teachers, grade_id \in GradeIds :
            read_grade_detail(current_user, grade_id) = OK
            => MayRead(current_user, grade_id)

\* The teacher_id of the Schedule of a stored Enrollment.
TeacherOf(enrollment_id) ==
    schedules[enrollments[enrollment_id].schedule_id].teacher_id

\* What the grade policy answers for an Enrollment that exists: a teacher
\* passes for an Enrollment of the teacher's own class and is otherwise
\* refused with permission-denied, a student is refused, an administrator
\* passes.
GradePolicy(current_user, enrollment_id, detail) ==
    CASE current_user \in Teachers ->
            IF TeacherOf(enrollment_id) = current_user
            THEN detail = OK
            ELSE detail \in PermissionDenied
      [] current_user \in Students -> detail # OK
      [] OTHER -> detail = OK

\* C13: for a Grade create or update that names a stored Enrollment or
\* Grade, a teacher is let through to the service exactly when the
\* Schedule of the Enrollment has the teacher's id as teacher_id and is
\* otherwise refused with permission-denied; a student is always refused,
\* whatever is named; an administrator is never refused by the policy; and
\* a refused call leaves every Grade as it was.
C13_GradeWritePolicy ==
    /\ [](/\ \A current_user \in DOMAIN users, grade \in PolicyGradeRequests :
                /\ get_enrollment(grade.enrollment_id)
                   => GradePolicy(current_user, grade.enrollment_id,
                                  create_new_grade_detail(current_user, grade))
                /\ current_user \in Students
                   => create_new_grade_detail(current_user, grade) # OK
                /\ current_user \in Admins
                   => create_new_grade_detail(current_user, grade) \notin PermissionDenied
          /\ \A current_user \in DOMAIN users, grade_id \in GradeIds :
                /\ get_grade(grade_id)
                   => GradePolicy(current_user, grades[grade_id].enrollment_id,
                                  update_grade_info_detail(current_user, grade_id))
                /\ current_user \in Students
                   => update_grade_info_detail(current_user, grade_id) # OK
                /\ current_user \in Admins
                   => update_grade_info_detail(current_user, grade_id) \notin PermissionDenied)
    /\ [][/\ last'.op \in {"create_new_grade", "update_grade_info"}
          /\ last'.detail # OK
          => grades' = grades]_vars

\* A teacher asked to grade an Enrollment of another teacher's class, in a
\* store that holds a Grade, and was refused.
C13_Witness ==
    /\ last.op = "create_new_grade"
    /\ last.detail = "Teachers can only grade their own classes"
    /\ grades # EmptyTable

\* C14: create_new_enrollment calls create_enrollment for a student
\* exactly when the request's student_id is the caller's id, and refuses
\* the student with permission-denied otherwise; it refuses every teacher
\* with permission-denied; it calls create_enrollment for every
\* administrator; and a call it refuses stores no Enrollment.
C14_EnrollmentCreatePolicy ==
    /\ [](\A current_user \in DOMAIN users, enrollment \in ConcEnrollmentRequests :
            LET detail == create_new_enrollment_detail(current_user, enrollment)
            IN  CASE current_user \in Students ->
                        IF enrollment.student_id = current_user
                        THEN detail = OK
                        ELSE detail \in PermissionDenied
                  [] current_user \in Teachers -> detail \in PermissionDenied
                  [] OTHER -> detail = OK)
    /\ [][/\ last'.op = "create_new_enrollment"
          /\ last'.detail # OK
          => enrollments' = enrollments /\ nextId' = nextId]_vars

\* A student asked to enroll the other student, in a store that holds an
\* Enrollment, and was refused.
C14_Witness ==
    /\ last.op = "create_new_enrollment"
    /\ last.detail = "Students can only enroll themselves"
    /\ enrollments # EmptyTable

\* The stored Enrollments that pass the subject and semester filters.
Filtered(subject_id, semester_id) ==
    {e \in DOMAIN enrollments :
        /\ subject_id # NULL => enrollments[e].subject_id = subject_id
        /\ semester_id # NULL => enrollments[e].semester_id = semester_id}

\* Reads of Enrollments: a student reads the student's own Enrollments and
\* no other, singly or in a list; a teacher and an administrator read any.
EnrollmentReadPolicy ==
    /\ \A current_user \in DOMAIN users, student_id \in StudentFilters,
          subject_id \in SubjectFilters, semester_id \in SemesterFilters :
            read_enrollments_body(current_user, student_id, subject_id, semester_id)
            = {e \in Filtered(subject_id, semester_id) :
                IF current_user \in Students
                THEN enrollments[e].student_id = current_user
                ELSE student_id # NULL => enrollments[e].student_id = student_id}
    /\ \A current_user \in DOMAIN users, e \in DOMAIN enrollments :
            IF current_user \in Students /\ enrollments[e].student_id # current_user
            THEN read_enrollment_detail(current_user, e) \in PermissionDenied
            ELSE read_enrollment_detail(current_user, e) = OK

\* Deletions of stored Enrollments by students and administrators: a
\* student passes for the student's own Enrollment and is otherwise refused
\* with permission-denied; an administrator passes.
EnrollmentDeletePolicy ==
    \A current_user \in Students \cup Admins, e \in DOMAIN enrollments :
        IF current_user \in Students /\ enrollments[e].student_id # current_user
        THEN delete_enrollment_record_detail(current_user, e) \in PermissionDenied
        ELSE delete_enrollment_record_detail(current_user, e) = OK

\* C15, as stated: a student reads and deletes only the student's own
\* Enrollments, a teacher reads any Enrollment, an administrator is never
\* refused by the policy, and every delete by a teacher is rejected with
\* permission-denied.
C15_TeacherDeleteAlwaysDenied ==
    /\ EnrollmentReadPolicy
    /\ EnrollmentDeletePolicy
    /\ \A current_user \in Teachers, enrollment_id \in EnrollmentIds :
            delete_enrollment_record_detail(current_user, enrollment_id)
            \in PermissionDenied

\* C15, amended: a student reads and deletes only the student's own
\* Enrollments, a teacher reads any Enrollment, an administrator is never
\* refused by the policy; a delete by a teacher is rejected with
\* permission-denied when it names a stored Enrollment and with not-found
\* when it names none, as it is for every caller; and a delete the route
\* rejects removes no Enrollment.
C15_EnrollmentReadDeletePolicy ==
    /\ [](/\ EnrollmentReadPolicy
          /\ EnrollmentDeletePolicy
          /\ \A current_user \in DOMAIN users, enrollment_id \in EnrollmentIds :
                /\ current_user \in Teachers /\ get_enrollment(enrollment_id)
                   => delete_enrollment_record_detail(current_user, enrollment_id)
                      \in PermissionDenied
                /\ ~get_enrollment(enrollment_id)
                   => delete_enrollment_record_detail(current_user, enrollment_id)
                      \in NotFound)
    /\ [][/\ last'.op = "delete_enrollment_record"
          /\ last'.detail # OK
          => enrollments' = enrollments]_vars

\* A teacher asked to delete a stored Enrollment and was refused.
C15_Witness ==
    /\ last.op = "delete_enrollment_record"
    /\ last.detail = "Teachers cannot delete enrollments"
    /\ get_enrollment(last.id)

(***************************************************************************)
(* SpecAtomic: the calls that change subjects and enrollments, one call at *)
(* a time, with requests of every kind of rejection: a subject or          *)
(* enrollment that is not found, a duplicate enrollment, a full class, a   *)
(* prerequisite not passed, a caller the route refuses, and a list of      *)
(* prerequisite ids that names a subject twice.                            *)
(***************************************************************************)
AtomicSubjectRequests == {<<1, <<>>>>, <<2, <<1>>>>, <<2, <<1, 1>>>>}

AtomicSubjectUpdates ==
    {[f \in {"max_students"} |-> 1],
     [f \in {"prerequisite_ids"} |-> <<1>>],
     [f \in {"prerequisite_ids"} |-> <<1, 1>>]}

\* One class for each subject, each with its own teacher and classroom.
AtomicClassRequests ==
    {ScheduleRow(su, su, 1, 0, <<"10:00", "11:00">>, IF su = 1 THEN "A" ELSE "B") :
        su \in 1..MaxSubjects}

\* Student 3 asks for each subject, student 4 for subject 1.
AtomicEnrollmentRequests ==
    {EnrollmentRow(3, su, su, 1) : su \in 1..MaxSubjects}
    \cup {EnrollmentRow(4, 1, 1, 1)}

\* A teacher, a student and the administrator.
AtomicCallers == {1, 3, 5}

NextAtomic ==
    \/ Stored /\ create_semester(1, TRUE)
    \/ Stored /\ \E subject \in AtomicSubjectRequests :
                    create_subject(3, subject[1], subject[2])
    \/ Stored /\ \E subject_id \in SubjectIds, subject \in AtomicSubjectUpdates :
                    update_subject(subject_id, subject)
    \/ Stored /\ \E subject_id \in SubjectIds : delete_subject(subject_id)
    \/ Stored /\ \E schedule \in AtomicClassRequests : create_schedule(schedule)
    \/ Stored /\ \E current_user \in AtomicCallers,
                    enrollment \in AtomicEnrollmentRequests :
                    create_new_enrollment(current_user, enrollment)
    \/ Stored /\ nextId.grade <= MaxGradesFollowed
              /\ \E grade \in GradeRequests : create_grade(grade)

SpecAtomic == Init /\ [][NextAtomic]_vars

\* C16: every mutating operation is all-or-nothing: a call that ends in a
\* rejection or an error leaves every table exactly as it was before the
\* call, so no call leaves a part of its effect committed.
C16_AllOrNothing ==
    [][last'.detail # OK
       => UNCHANGED <<users, semesters, subjects, schedules, enrollments,
                      grades>>]_vars

(***************************************************************************)
(* SpecGrade: the grade services, one call at a time, on the requests that *)
(* pass the validation of their schema.  Weights and scores are counted in *)
(* tenths.                                                                 *)
(***************************************************************************)
\* GradeBase.validate_weight: 0 <= v <= 1
validate_weight(v) == 0 <= v /\ v <= 10

\* GradeBase.validate_score: 0 <= v <= 5
validate_score(v) == 0 <= v /\ v <= 50

\* GradeCreate is GradeBase: both validators run.
valid_GradeCreate(grade) ==
    validate_weight(grade.weight) /\ validate_score(grade.score)

\* GradeUpdate declares three optional fields and no validator.
valid_GradeUpdate(grade) ==
    DOMAIN grade \subseteq {"evaluation_type", "weight", "score"}

\* Request bodies: a weight of 0.5 or 1.5 and a score of 3.0 or 6.0.
GradeBodies ==
    {GradeRow(e, t, w, s) :
        e \in 1..MaxEnrollments, t \in {"final", "partial1"},
        w \in {5, 15}, s \in {30, 60}}

GradeUpdateBodies ==
    {[f \in {"evaluation_type"} |-> "final"],
     [f \in {"weight"} |-> 15],
     [f \in {"score"} |-> 60],
     [f \in {"score"} |-> 29]}

NextGrade ==
    \/ Stored /\ create_semester(1, TRUE)
    \/ Stored /\ create_subject(3, 2, <<>>)
    \/ Stored /\ \E schedule \in ConcClassRequests : create_schedule(schedule)
    \/ Stored /\ \E enrollment \in ConcEnrollmentRequests :
                    create_enrollment(enrollment)
    \/ Stored /\ \E grade \in GradeBodies :
                    valid_GradeCreate(grade) /\ create_grade(grade)
    \/ Stored /\ \E grade_id \in GradeIds, grade \in GradeUpdateBodies :
                    valid_GradeUpdate(grade) /\ update_grade(grade_id, grade)
    \/ Stored /\ \E grade_id \in GradeIds : delete_grade(grade_id)

SpecGrade == Init /\ [][NextGrade]_vars

\* C17: after any sequence of create_grade, update_grade and delete_grade
\* calls there is at most one Grade for each pair of enrollment_id and
\* evaluation_type.
C17_OneGradePerEvaluation ==
    \A g1, g2 \in DOMAIN grades :
        /\ grades[g1].enrollment_id = grades[g2].enrollment_id
        /\ grades[g1].evaluation_type = grades[g2].evaluation_type
        => g1 = g2

\* C18: after any sequence of grade create and update requests that pass
\* the validation of the request, every stored Grade has a weight in
\* [0, 1] and a score in [0, 5].
C18_GradeRanges ==
    \A g \in DOMAIN grades :
        /\ 0 <= grades[g].weight /\ grades[g].weight <= 10
        /\ 0 <= grades[g].score /\ grades[g].score <= 50

(***************************************************************************)
(* Academic record service.  A score and a weight are counted in tenths,   *)
(* so score * weight, final_score and the averages are counted in          *)
(* hundredths, as exact numbers.  A query without ORDER BY returns its     *)
(* rows in an order the store chooses.                                     *)
(***************************************************************************)
\* The orders in which a query may return the rows whose keys are keys.
Orders(keys) ==
    {order \in [1..Cardinality(keys) -> keys] :
        \A i, j \in DOMAIN order : i # j => order[i] # order[j]}

\* round(n / d, 2) for n and d counted so that n / d is in hundredths: the
\* nearest whole number of hundredths, the even one of two equally near.
round(n, d) ==
    LET q == n \div d
        r == n % d
    IN  IF 2 * r < d THEN q
        ELSE IF 2 * r > d THEN q + 1
        ELSE IF q % 2 = 0 THEN q ELSE q + 1

RECURSIVE final_score(_)
\* final_score = 0; for grade in grades: final_score += score * weight
final_score(grade_ids) ==
    IF grade_ids = <<>> THEN 0
    ELSE final_score(SubSeq(grade_ids, 1, Len(grade_ids) - 1))
         + grades[grade_ids[Len(grade_ids)]].score
           * grades[grade_ids[Len(grade_ids)]].weight

\* Mutant: a final score of exactly 3.0 does not pass.
passed_Above(score) == score > PassingScore * 10

\* final_score >= 3.0
passed(score) == score >= PassingScore * 10

\* The totals before the first enrollment is processed.
NoData == [semesters_data |-> <<>>, total_grade_points |-> 0, total_credits |-> 0]

\* One pass of the loop over the enrollments.  semesters_data is a dict:
\* its entries in the order in which their keys were first inserted.
process_enrollment(data, enrollment_id, grade_order) ==
    LET enrollment == enrollments[enrollment_id]
        semester == semesters[enrollment.semester_id]
        subject == subjects[enrollment.subject_id]
        score == final_score(SelectSeq(grade_order,
                    LAMBDA g : grades[g].enrollment_id = enrollment_id))
        known == \E k \in DOMAIN data.semesters_data :
                    data.semesters_data[k].semester_id = enrollment.semester_id
        entries == IF known THEN data.semesters_data
                   ELSE Append(data.semesters_data,
                               [semester_id |-> enrollment.semester_id,
                                start_date |-> semester.start_date,
                                subjects |-> <<>>,
                                semester_gpa |-> 0,
                                semester_credits |-> 0])
    IN  [semesters_data |->
            [k \in DOMAIN entries |->
                IF entries[k].semester_id = enrollment.semester_id
                THEN [entries[k] EXCEPT
                        !.subjects = Append(@, [subject_id |-> enrollment.subject_id,
                                                credits |-> subject.credits,
                                                final_score |-> score,
                                                passed |-> passed(score)]),
                        !.semester_credits = @ + subject.credits,
                        !.semester_gpa = @ + score * subject.credits]
                ELSE entries[k]],
         total_grade_points |->
            IF passed(score) THEN data.total_grade_points + score * subject.credits
            ELSE data.total_grade_points,
         total_credits |->
            IF passed(score) THEN data.total_credits + subject.credits
            ELSE data.total_credits]

RECURSIVE process_enrollments(_, _)
\* for enrollment in enrollments: ...
process_enrollments(enrollment_order, grade_order) ==
    IF enrollment_order = <<>> THEN NoData
    ELSE process_enrollment(
            process_enrollments(SubSeq(enrollment_order, 1, Len(enrollment_order) - 1),
                                grade_order),
            enrollment_order[Len(enrollment_order)], grade_order)

\* semester_gpa /= semester_credits, rounded, where there are credits
semester_averages(semesters_data) ==
    [k \in DOMAIN semesters_data |->
        IF semesters_data[k].semester_credits > 0
        THEN [semesters_data[k] EXCEPT
                !.semester_gpa = round(@, semesters_data[k].semester_credits)]
        ELSE semesters_data[k]]

\* Mutant: the semesters are returned in the order of the dict.
sorted_Unsorted(entries) == entries

RECURSIVE sorted(_)
\* sorted(values, key=start_date): ascending, and stable: of two entries
\* with the same start_date the one that came first stays first.
sorted(entries) ==
    IF entries = <<>> THEN <<>>
    ELSE LET x == entries[Len(entries)]
             rest == sorted(SubSeq(entries, 1, Len(entries) - 1))
             before == SelectSeq(rest, LAMBDA y : y.start_date <= x.start_date)
             after == SelectSeq(rest, LAMBDA y : y.start_date > x.start_date)
         IN  before \o <<x>> \o after

\* The dict get_student_academic_record returns for a student, when the
\* enrollments and the grades come back in the given orders.
academic_record(student_id, enrollment_order, grade_order) ==
    IF enrollment_order = <<>>
    THEN [student_id |-> student_id, cumulative_gpa |-> 0, total_credits |-> 0,
          semesters |-> <<>>]
    ELSE LET data == process_enrollments(enrollment_order, grade_order)
         IN  [student_id |-> student_id,
              cumulative_gpa |->
                IF data.total_credits > 0
                THEN round(data.total_grade_points, data.total_credits)
                ELSE 0,
              total_credits |-> data.total_credits,
              semesters |-> sorted(semester_averages(data.semesters_data))]

\* Mutant: the query has no filter on the student.
enrollments_of_All(student_id) == DOMAIN enrollments

\* db.query(Enrollment).filter(Enrollment.student_id == student_id)
enrollments_of(student_id) ==
    {e \in DOMAIN enrollments : enrollments[e].student_id = student_id}

\* The dicts get_student_academic_record may return for a student, one for
\* each order in which the store may return the rows.
academic_records(student_id) ==
    {academic_record(student_id, enrollment_order, grade_order) :
        enrollment_order \in Orders(enrollments_of(student_id)),
        grade_order \in Orders(DOMAIN grades)}

get_student_academic_record(student_id) ==
    /\ IF ~(student_id \in DOMAIN users /\ users[student_id].role = STUDENT)
       THEN last' = Outcome("get_student_academic_record", "Student not found",
                            student_id, 0)
       ELSE \E enrollment_order \in Orders(enrollments_of(student_id)),
               grade_order \in Orders(DOMAIN grades) :
                last' = Returned("get_student_academic_record", student_id,
                                 {academic_record(student_id, enrollment_order,
                                                  grade_order)})
    /\ UNCHANGED <<users, semesters, subjects, schedules, enrollments, grades,
                   nextId, pending>>

(***************************************************************************)
(* SpecRecord: the academic record of a student, read after the semesters, *)
(* subjects, classes, enrollments and grades were created.  Two semesters  *)
(* start on the same day or on different days, in either order of          *)
(* creation; the subjects carry 1 or 2 credits; each subject has a class   *)
(* on its own day in either semester.  User 1 is no student.               *)
(***************************************************************************)
StartDates == {1, 2}

Credits == {1, 2}

\* Subject 1 is taught in semester 1, subject 2 in either semester.
RecordClassRequests ==
    {ScheduleRow(1, 1, 1, 0, <<"10:00", "11:00">>, "A")}
    \cup {ScheduleRow(2, 2, se, 1, <<"10:00", "11:00">>, "B") :
            se \in 1..MaxSemesters}

RecordEnrollmentRequests ==
    {EnrollmentRow(3, 1, 1, 1), EnrollmentRow(4, 1, 1, 1)}
    \cup {EnrollmentRow(3, 2, 2, se) : se \in 1..MaxSemesters}

\* A final grade of 2.9, 3.0 or 3.5 that weighs 1.0, and a partial grade
\* of 3.0 that weighs 0.5.
RecordGradeRequests ==
    {GradeRow(e, g[1], g[2], g[3]) :
        e \in 1..MaxEnrollments,
        g \in {<<"final", 10, 29>>, <<"final", 10, 30>>, <<"final", 10, 35>>,
               <<"partial1", 5, 30>>}}

NextRecord ==
    \/ Stored /\ \E start_date \in StartDates : create_semester(start_date, TRUE)
    \/ Stored /\ \E credits \in Credits : create_subject(credits, 2, <<>>)
    \/ Stored /\ \E schedule \in RecordClassRequests : create_schedule(schedule)
    \/ Stored /\ \E enrollment \in RecordEnrollmentRequests :
                    create_enrollment(enrollment)
    \/ Stored /\ \E grade \in RecordGradeRequests : create_grade(grade)
    \/ Stored /\ \E student_id \in {1, 3, 4} :
                    get_student_academic_record(student_id)

SpecRecord == Init /\ [][NextRecord]_vars

(***************************************************************************)
(* The claims about the academic record.                                   *)
(***************************************************************************)
RECURSIVE SumOfGrades(_)
\* The sum of score * weight over a set of grades.
SumOfGrades(G) ==
    IF G = {} THEN 0
    ELSE LET g == CHOOSE g \in G : TRUE
         IN  grades[g].score * grades[g].weight + SumOfGrades(G \ {g})

\* The final score of an enrollment, in hundredths.
FinalScore(e) == SumOfGrades({g \in DOMAIN grades : grades[g].enrollment_id = e})

CreditsOf(e) == subjects[enrollments[e].subject_id].credits

\* The enrollments of a student whose final score is at least 3.0.
PassedEnrollments(student_id) ==
    {e \in DOMAIN enrollments :
        enrollments[e].student_id = student_id /\ FinalScore(e) >= 300}

RECURSIVE SumOfCredits(_)
SumOfCredits(E) ==
    IF E = {} THEN 0
    ELSE LET e == CHOOSE e \in E : TRUE
         IN  CreditsOf(e) + SumOfCredits(E \ {e})

RECURSIVE SumOfPoints(_)
SumOfPoints(E) ==
    IF E = {} THEN 0
    ELSE LET e == CHOOSE e \in E : TRUE
         IN  FinalScore(e) * CreditsOf(e) + SumOfPoints(E \ {e})

\* The record the last call returned.
TheRecord == CHOOSE record \in last.body : TRUE

SemestersOf(student_id) ==
    {enrollments[e].semester_id : e \in enrollments_of(student_id)}

\* C20: for every student and every order in which the store returns the
\* enrollments, the semesters list of the record has exactly one entry for
\* each semester in which the student has at least one enrollment and no
\* other entry, and the entries are in ascending order of start_date.
C20_SemestersSorted ==
    \A student_id \in Students :
        \A enrollment_order \in Orders(enrollments_of(student_id)),
           grade_order \in Orders(DOMAIN grades) :
            LET list == academic_record(student_id, enrollment_order,
                                        grade_order).semesters
            IN  /\ {list[k].semester_id : k \in DOMAIN list} = SemestersOf(student_id)
                /\ Len(list) = Cardinality(SemestersOf(student_id))
                /\ \A k \in DOMAIN list :
                    list[k].start_date = semesters[list[k].semester_id].start_date
                /\ \A i, j \in DOMAIN list :
                    i < j => list[i].start_date <= list[j].start_date

\* The record of a student was read who has enrollments in two semesters,
\* the second of which starts before the first: the list begins with the
\* second.
C20_Witness ==
    /\ last.op = "get_student_academic_record"
    /\ last.detail = OK
    /\ SemestersOf(last.id) = {1, 2}
    /\ semesters[2].start_date < semesters[1].start_date
    /\ Len(TheRecord.semesters) = 2
    /\ TheRecord.semesters[1].semester_id = 2

\* The record of a student without enrollments.
EmptyRecord(student_id) ==
    [student_id |-> student_id, cumulative_gpa |-> 0, total_credits |-> 0,
     semesters |-> <<>>]

\* No stored Enrollment names the student.
NoEnrollments(student_id) ==
    \A e \in DOMAIN enrollments : enrollments[e].student_id # student_id

\* C21: for an existing user with role student and no enrollments,
\* get_student_academic_record does not fail: it returns cumulative_gpa 0,
\* total_credits 0 and an empty semesters list.
C21_EmptyRecord ==
    /\ \A student_id \in Students :
        NoEnrollments(student_id)
        => academic_records(student_id) = {EmptyRecord(student_id)}
    /\ /\ last.op = "get_student_academic_record"
       /\ last.id \in Students
       /\ NoEnrollments(last.id)
       => last.detail = OK /\ last.body = {EmptyRecord(last.id)}

\* The record of student 4 was read, who has no enrollment, in a store
\* that holds an Enrollment and a Grade of student 3.
C21_Witness ==
    /\ last.op = "get_student_academic_record"
    /\ last.detail = OK
    /\ last.id = 4
    /\ NoEnrollments(4)
    /\ \E g \in DOMAIN grades : enrollments[grades[g].enrollment_id].student_id = 3
    /\ last.body = {EmptyRecord(4)}

(***************************************************************************)
(* The claims about the semesters.                                         *)
(***************************************************************************)
\* C22: in every state reached through create_semester and update_semester
\* at most one Semester has is_active = true.
C22_AtMostOneActive ==
    \A s1, s2 \in DOMAIN semesters :
        semesters[s1].is_active /\ semesters[s2].is_active => s1 = s2

(***************************************************************************)
(* SpecSeat: create_enrollment requests side by side for a subject with    *)
(* one seat.                                                               *)
(***************************************************************************)
NextSeat ==
    \/ create_semester(1, TRUE)
    \/ create_subject(3, 1, <<>>)
    \/ \E schedule \in ConcClassRequests : create_schedule(schedule)
    \/ \E slot \in Slots, enrollment \in ConcEnrollmentRequests :
            begin_create_enrollment(slot, enrollment)
    \/ \E slot \in Slots : commit_create_enrollment(slot)

SpecSeat == Init /\ [][NextSeat]_vars

\* C23: the capacity check is a read that the insert does not repeat: a
\* request that passed its checks is persisted at its commit although the
\* class has filled up since, unless the store already holds an Enrollment
\* of its (student, subject, semester).  Two requests of different students
\* for the last free seat can therefore both pass the check before either
\* commits, and both are persisted.
C23_LastSeatRace ==
    [][\A slot \in Slots :
        ( /\ pending[slot].op = "create_enrollment"
          /\ pending'[slot].op = "none"
          /\ Cardinality(SameClass(pending[slot].row))
             >= subjects[pending[slot].row.subject_id].max_students
          /\ SameTriple(pending[slot].row) = {} )
        => /\ nextId.enrollment \in DOMAIN enrollments'
           /\ enrollments'[nextId.enrollment] = pending[slot].row]_vars

\* Two students are enrolled in the same subject, semester and schedule of
\* a subject with one seat.
C23_Witness ==
    \E e1, e2 \in DOMAIN enrollments :
        /\ enrollments[e1].student_id # enrollments[e2].student_id
        /\ e2 \in SameClass(enrollments[e1])
        /\ Cardinality(SameClass(enrollments[e1]))
           > subjects[enrollments[e1].subject_id].max_students

(***************************************************************************)
(* The list routes with filters.                                           *)
(***************************************************************************)
\* query.filter(...) for each filter that is given; None and 0 are not.
get_schedules(semester_id, subject_id, teacher_id) ==
    {k \in DOMAIN schedules :
        /\ semester_id # NULL => schedules[k].semester_id = semester_id
        /\ subject_id # NULL => schedules[k].subject_id = subject_id
        /\ teacher_id # NULL => schedules[k].teacher_id = teacher_id}

\* read_schedules has no check of its own: any authenticated user lists.
read_schedules(current_user, semester_id, subject_id, teacher_id) ==
    /\ last' = Returned("read_schedules", NULL,
                        get_schedules(semester_id, subject_id, teacher_id))
    /\ UNCHANGED <<users, semesters, subjects, schedules, enrollments, grades,
                   nextId, pending>>

\* SpecRead: one class, its enrollments and grades, and the three list
\* routes called by each user with each filter value, among them keys of
\* rows that are not stored.
TeacherFilters == {NULL, 1, 2}

NextRead ==
    \/ Stored /\ create_semester(1, TRUE)
    \/ Stored /\ create_subject(3, 2, <<>>)
    \/ Stored /\ \E schedule \in ConcClassRequests : create_schedule(schedule)
    \/ Stored /\ \E enrollment \in ConcEnrollmentRequests :
                    create_enrollment(enrollment)
    \/ Stored /\ \E grade \in PolicyGradeRequests : create_grade(grade)
    \/ Stored /\ \E current_user \in Callers, semester_id \in SemesterFilters,
                    subject_id \in SubjectFilters, teacher_id \in TeacherFilters :
                    read_schedules(current_user, semester_id, subject_id, teacher_id)
    \/ Stored /\ \E current_user \in Callers, student_id \in StudentFilters,
                    subject_id \in SubjectFilters, semester_id \in SemesterFilters :
                    read_enrollments(current_user, student_id, subject_id, semester_id)
    \/ Stored /\ \E current_user \in Callers, enrollment_id \in EnrollmentFilters :
                    read_grades(current_user, enrollment_id)

SpecRead == Init /\ [][NextRead]_vars

\* C24: every list route with filters (schedules, enrollments, grades)
\* returns an empty result, and no error, when no stored row matches the
\* filter values, for every caller allowed to perform the read: the lists of
\* schedules and of enrollments always return, and a list of grades asked by
\* an administrator, whom no role check refuses, returns the empty list
\* whenever no stored Grade has the enrollment_id of the filter.
C24_EmptyNotError ==
    /\ last.op \in {"read_schedules", "read_enrollments"} => last.detail = OK
    /\ \A current_user \in Admins, enrollment_id \in EnrollmentFilters :
            get_grades(enrollment_id) = {}
            => /\ read_grades_detail(current_user, enrollment_id) = OK
               /\ read_grades_body(current_user, enrollment_id) = {}

(***************************************************************************)
(* SpecCapacity: the operations that touch the capacity of a class, one    *)
(* call at a time: subjects are created with two seats, an update sets     *)
(* max_students to 1 or back to 2, both students enroll and withdraw.      *)
(***************************************************************************)
CapacityUpdates == {[f \in {"max_students"} |-> n] : n \in 1..2}

NextCapacity ==
    \/ Stored /\ create_semester(1, TRUE)
    \/ Stored /\ create_subject(3, 2, <<>>)
    \/ Stored /\ \E schedule \in DeleteClassRequests : create_schedule(schedule)
    \/ Stored /\ \E student_id \in Students, enrollment \in DeleteEnrollmentRequests :
                    create_enrollment([enrollment EXCEPT !.student_id = student_id])
    \/ Stored /\ \E subject_id \in SubjectIds, subject \in CapacityUpdates :
                    update_subject(subject_id, subject)
    \/ Stored /\ \E enrollment_id \in EnrollmentIds :
                    delete_enrollment(enrollment_id)

SpecCapacity == Init /\ [][NextCapacity]_vars

\* C25: after any sequence of create_enrollment, delete_enrollment,
\* create_subject and update_subject calls made one at a time, for every
\* (subject, semester, schedule) the number of Enrollments is at most the
\* current max_students of the subject.
C25_CapacityNeverExceeded ==
    \A e \in DOMAIN enrollments :
        enrollments[e].subject_id \in DOMAIN subjects
        => Cardinality(SameClass(enrollments[e]))
           <= subjects[enrollments[e].subject_id].max_students

\* C26: every stored Enrollment is consistent with its Schedule: the
\* Schedule it names has the subject_id and the semester_id of the
\* Enrollment.
C26_EnrollmentMatchesSchedule ==
    \A e \in DOMAIN enrollments :
        enrollments[e].schedule_id \in DOMAIN schedules
        => /\ schedules[enrollments[e].schedule_id].subject_id
              = enrollments[e].subject_id
           /\ schedules[enrollments[e].schedule_id].semester_id
              = enrollments[e].semester_id

\* The prerequisite check of create_enrollment accepts enrollment e as
\* passed: the join of passed_prereq finds a Grade of e.
PrereqAccepts(e) ==
    \E g \in DOMAIN grades :
        /\ grades[g].enrollment_id = e
        /\ grades[g].evaluation_type = "final"
        /\ grades[g].score >= PassingScore

\* The academic record reports enrollment e with passed = true, in whatever
\* order the store returns the grades.
RecordPassed(e) ==
    \A grade_order \in Orders(DOMAIN grades) :
        passed(final_score(SelectSeq(grade_order,
                                     LAMBDA g : grades[g].enrollment_id = e)))

\* C27: the two notions of passing agree: the prerequisite check of
\* create_enrollment accepts an enrollment as passed exactly when
\* get_student_academic_record reports that enrollment with passed = true.
C27_PassingAgrees ==
    \A e \in DOMAIN enrollments : PrereqAccepts(e) <=> RecordPassed(e)

(***************************************************************************)
(* The validation of a schedule request.                                   *)
(***************************************************************************)
\* ScheduleBase.validate_day_of_week: 0 <= v <= 6
validate_day_of_week(v) == 0 <= v /\ v <= 6

\* ScheduleBase.validate_time_format: datetime.strptime(v, "%H:%M") parses
\* v.  Each field is validated on its own.
validate_time_format(v) == v \in TimeStrings

\* ScheduleCreate is ScheduleBase: both validators run, and no validator
\* sees start_time and end_time together.
valid_ScheduleCreate(schedule) ==
    /\ validate_day_of_week(schedule.day_of_week)
    /\ validate_time_format(schedule.start_time)
    /\ validate_time_format(schedule.end_time)

\* Request bodies: a class from 10:00 to 11:00, one whose times are given
\* the other way round and one that ends when it starts, on day 0 or on a
\* day 7 that the validation refuses.
ScheduleBodies ==
    {ScheduleRow(1, t, 1, d, sl, c) :
        t \in {1, 2}, d \in {0, 7}, c \in {"A", "B"},
        sl \in {<<"10:00", "11:00">>, <<"11:00", "10:00">>, <<"10:00", "10:00">>}}

NextTimes ==
    \/ Stored /\ create_semester(1, TRUE)
    \/ Stored /\ create_subject(3, 1, <<>>)
    \/ Stored /\ \E schedule \in ScheduleBodies :
                    valid_ScheduleCreate(schedule) /\ create_schedule(schedule)
    \/ Stored /\ \E schedule_id \in ScheduleIds : delete_schedule(schedule_id)

SpecTimes == Init /\ [][NextTimes]_vars

\* C28: every stored Schedule has start_time strictly before end_time, so
\* that two stored schedules with identical day, semester, teacher and times
\* are detected as overlapping by the conflict test of create_schedule.
C28_StartBeforeEnd ==
    /\ \A k \in DOMAIN schedules :
            Minutes(schedules[k].start_time) < Minutes(schedules[k].end_time)
    /\ \A a, b \in DOMAIN schedules :
            ( /\ schedules[a].day_of_week = schedules[b].day_of_week
              /\ schedules[a].semester_id = schedules[b].semester_id
              /\ schedules[a].teacher_id = schedules[b].teacher_id
              /\ schedules[a].start_time = schedules[b].start_time
              /\ schedules[a].end_time = schedules[b].end_time )
            => Overlaps(schedules[a], schedules[b])

(***************************************************************************)
(* Two create_schedule requests side by side: the conflict queries of a    *)
(* request run against the rows committed so far, and its row is inserted  *)
(* later; the commit checks the declared constraints of the schedules      *)
(* table, of which uq_classroom_time is the only unique one.               *)
(***************************************************************************)
begin_create_schedule(slot, schedule) ==
    LET detail == create_schedule_detail(schedule)
    IN  /\ pending[slot].op = "none"
        /\ IF detail = OK
           THEN /\ pending' = [pending EXCEPT ![slot] =
                                 [op |-> "create_schedule", row |-> schedule]]
                /\ UNCHANGED last
           ELSE /\ last' = Outcome("create_schedule", detail, NULL, 0)
                /\ UNCHANGED pending
        /\ UNCHANGED <<users, semesters, subjects, schedules, enrollments, grades,
                       nextId>>

commit_create_schedule(slot) ==
    LET schedule == pending[slot].row
        detail == insert_schedule_detail(schedule)
    IN  /\ pending[slot].op = "create_schedule"
        /\ detail = OK => nextId.schedule <= MaxSchedules
        /\ pending' = [pending EXCEPT ![slot] = NoPending]
        /\ IF detail = OK
           THEN /\ schedules' = Put(schedules, nextId.schedule, schedule)
                /\ nextId' = [nextId EXCEPT !.schedule = @ + 1]
                /\ last' = RowStored
           ELSE /\ last' = Outcome("create_schedule", detail, NULL, 0)
                /\ UNCHANGED <<schedules, nextId>>
        /\ UNCHANGED <<users, semesters, subjects, enrollments, grades>>

\* Classes of subject 1 in semester 1 on day 0, given by either teacher in
\* either classroom, at times written with two-digit hours.
RaceClassRequests ==
    {ScheduleRow(1, t, 1, 0, sl, c) :
        t \in {1, 2}, c \in {"A", "B"},
        sl \in {<<"10:00", "11:00">>, <<"10:00", "12:00">>, <<"11:00", "12:00">>}}

NextRace ==
    \/ create_semester(1, TRUE)
    \/ create_subject(3, 1, <<>>)
    \/ \E slot \in Slots, schedule \in RaceClassRequests :
            begin_create_schedule(slot, schedule)
    \/ \E slot \in Slots : commit_create_schedule(slot)

SpecRace == Init /\ [][NextRace]_vars

\* C29: under any interleaving of two concurrent create_schedule requests,
\* each a conflict read followed by an insert that only the unique
\* constraint on (classroom, day_of_week, start_time, semester_id) can
\* refuse, no two persisted Schedules of the same semester and day share a
\* classroom or a teacher with overlapping times.
C29_NoDoubleBookingUnderRace ==
    \A a \in DOMAIN schedules : \A b \in DOMAIN schedules \ {a} :
        ( /\ schedules[a].semester_id = schedules[b].semester_id
          /\ schedules[a].day_of_week = schedules[b].day_of_week
          /\ StatedTest(schedules[a], schedules[b]) )
        => /\ schedules[a].classroom # schedules[b].classroom
           /\ schedules[a].teacher_id # schedules[b].teacher_id
====
